---- MODULE Spec2Model ----
(***************************************************************************)
(* Model of the RAG query service: the /query and /query/simple handlers   *)
(* (routes/query.py), the Redis query cache (cache.py), the OpenRouter     *)
(* client with retries and fallback (llm/openrouter_client.py) and the     *)
(* in-memory metrics (observability.py).                                   *)
(*                                                                         *)
(* The handlers are coroutines of one asyncio event loop: a handler runs   *)
(* atomically from one real suspension point to the next.  The only        *)
(* awaits that suspend are the HTTP post to the generation provider and    *)
(* the backoff sleep; cache.get/set, get_embedding and search contain no   *)
(* suspending await and run inside the step that calls them.               *)
(*                                                                         *)
(* Besides the service (Spec) the module describes a direct caller of      *)
(* call_with_fallback (SpecLLM), threads calling the methods of one        *)
(* Metrics instance (SpecMetrics) and a direct caller of the QueryCache    *)
(* methods while time passes (SpecCache).                                  *)
(***************************************************************************)
EXTENDS Integers, Sequences, FiniteSets, TLC

\* ---------------------------------------------------------------- bounds
\* Number of request tasks of the service (each handles one request).
NumTasks == 2
\* call_with_fallback is exercised with max_retries in 0..MaxRetriesBound.
MaxRetriesBound == 2
\* Number of threads that call the Metrics instance concurrently.
NumThreads == 3
\* The Metrics instance the threads share is built with latency_window in
\* {SmallWindow, LatencyWindow}.
SmallWindow == 2

Tasks == 1..NumTasks
Threads == 1..NumThreads

\* ------------------------------------------------------ program constants
\* max_retries=2 passed by both handlers to call_with_fallback.
HandlerMaxRetries == 2
\* Metrics(latency_window=1000): maxlen of the latency deque.
LatencyWindow == 1000

VARIABLES
    \* per task (one request handled by one coroutine)
    pc,              \* "idle" | "http" | "sleep" | "done" | "cancelled"
    request,         \* the request being handled
    context_chunks,  \* chunks retrieved for the request
    llm,             \* state of the call_with_fallback call of the request
    ops,             \* what the request has done so far (observation)
    response,        \* <<>> or <<response>>
    \* shared by all tasks
    store,           \* contents of the Redis backend: key -> <<>> or <<data>>
    redis_up,        \* whether the Redis backend answers
    redis_client,    \* cache.py global _redis_client: "None" | "client"
    cache_client,    \* QueryCache._client of the singleton: "None" | "client"
    template_cache,  \* prompting.py _template_cache: set of loaded templates
    metrics,         \* the global Metrics instance
    api_key,         \* whether OPENROUTER_API_KEY is set in the environment
    \* a direct caller of call_with_fallback with a recording transport
    gen,             \* state of its call
    transport_log,   \* the HTTP calls its transport has answered, in order
    \* threads calling the methods of the Metrics instance
    lock,            \* Metrics._lock: the set of threads holding it
    threads,         \* per thread: the call it makes and how far it is
    \* the Redis TTLs, and a direct caller of the QueryCache methods
    expiry,          \* seconds each key's entry has left (0: no entry)
    cache_call,      \* the last QueryCache call and what it returned
    \* direct callers of retrieve_context and of build_messages
    qdrant_client,   \* qdrant_client.py global _client: "None" | "client"
    retrieval_call,  \* a retrieve_context call: arguments, index, outcome
    prompt_call,     \* a build_messages call: arguments and outcome
    \* the ingestion scripts' chunk_text
    chunk_call       \* a chunk_text call: arguments, loop state, chunks

vars == <<pc, request, context_chunks, llm, ops, response, store, redis_up,
          redis_client, cache_client, template_cache, metrics, api_key,
          gen, transport_log, lock, threads, expiry, cache_call,
          qdrant_client, retrieval_call, prompt_call, chunk_call>>

taskVars == <<pc, request, context_chunks, llm, ops, response>>
cacheVars == <<store, expiry, redis_client, cache_client>>
llmVars == <<gen, transport_log>>
threadVars == <<lock, threads>>
callVars == <<cache_call>>
libVars == <<qdrant_client, retrieval_call, prompt_call, chunk_call>>

\* =====================================================================
\* Query cache: cache.py
\* =====================================================================

\* Strings that are taken apart are sequences of one-character strings.
Queries == { <<"q">>, <<" ", "Q">> }
RagIds == { <<"a">>, <<"b">> }

\* The (query, rag_id) arguments of the direct calls of the QueryCache
\* methods.
CacheArgs ==
    { << <<"q">>, <<"a">> >>,
      << <<" ", "Q", " ">>, <<"a">> >>,
      << <<"b", ":", "q">>, <<"a">> >>,
      << <<"q">>, <<"a", ":", "b">> >> }

\* str.lower() on one character.
LowerChar(c) == IF c = "Q" THEN "q" ELSE c

Lower(s) == [i \in 1..Len(s) |-> LowerChar(s[i])]

\* str.strip(): drop leading and trailing whitespace.
RECURSIVE LStrip(_)
LStrip(s) == IF s # <<>> /\ Head(s) = " " THEN LStrip(Tail(s)) ELSE s

RECURSIVE RStrip(_)
RStrip(s) ==
    IF s # <<>> /\ s[Len(s)] = " " THEN RStrip(SubSeq(s, 1, Len(s) - 1)) ELSE s

Strip(s) == RStrip(LStrip(s))

\* hashlib.md5(...).hexdigest(): the digest stands for its preimage
\* (collisions of the hash are not modelled).
md5(s) == <<"md5", s>>

KEY_PREFIX == "raf:cache:query:"

\* A key made of the query as it was typed.
make_key_verbatim(query, rag_id) ==
    <<KEY_PREFIX, md5(rag_id \o <<":">> \o query)>>

\* QueryCache._make_key
make_key(query, rag_id) ==
    LET normalized == rag_id \o <<":">> \o Strip(Lower(query))
    IN <<KEY_PREFIX, md5(normalized)>>

AllKeys ==
    {make_key(q, r) : q \in Queries, r \in RagIds}
    \cup {make_key(a[1], a[2]) : a \in CacheArgs}

DEFAULT_TTL == 3600

\* QueryCache.__init__: self.ttl = ttl_seconds or self.DEFAULT_TTL.  (An
\* absent ttl, None, is written 0: `or` treats the two alike.)
QueryCache_init(ttl_seconds) ==
    IF ttl_seconds # 0 THEN ttl_seconds ELSE DEFAULT_TTL

\* get_query_cache(): the singleton is QueryCache().
SingletonTTL == QueryCache_init(0)

\* A set that always writes with the instance TTL.
EffectiveTTL_instance_only(ttl, self_ttl) == self_ttl

\* `ttl = ttl or self.ttl` in QueryCache.set
EffectiveTTL(ttl, self_ttl) == IF ttl # 0 THEN ttl ELSE self_ttl

\* What a call to a backend that does not answer raises.
BackendError == [type |-> "ConnectionError"]

\* Methods that let the backend's exception through.
cache_except_nothing(exc) == FALSE

\* `except Exception as e:` of the QueryCache methods
cache_except(exc) == TRUE

\* A serialization that drops the chunks.
json_dumps_lossy(v) == [json |-> [v EXCEPT !.context_chunks = <<>>]]

\* json.dumps / json.loads of a response dict (strings, lists and floats
\* survive the round trip; the stored value is the serialized text).
json_dumps(v) == [json |-> v]
json_loads(data) == data.json

\* get_redis_client(): the global is assigned before the ping, so a failed
\* ping returns None but leaves the global set.  (The redis package is
\* taken to be installed.)
get_redis_client(rc, up) ==
    IF rc # "None" THEN [ret |-> rc, redis_client |-> rc]
    ELSE IF up THEN [ret |-> "client", redis_client |-> "client"]
    ELSE [ret |-> "None", redis_client |-> "client"]

\* A client property that gives up for good once the backend was found
\* unreachable.
client_stuck_down(cs, up) ==
    IF cs.cache_client = "None"
    THEN IF cs.redis_client # "None"
         THEN [ret |-> "None", cs |-> cs]
         ELSE LET g == get_redis_client(cs.redis_client, up)
              IN [ret |-> g.ret,
                  cs |-> [cs EXCEPT !.cache_client = g.ret,
                                    !.redis_client = g.redis_client]]
    ELSE [ret |-> cs.cache_client, cs |-> cs]

\* QueryCache.client (lazy property) on a cache state
\* cs = [store, expiry, redis_client, cache_client, ttl].
client(cs, up) ==
    IF cs.cache_client = "None"
    THEN LET g == get_redis_client(cs.redis_client, up)
         IN [ret |-> g.ret,
             cs |-> [cs EXCEPT !.cache_client = g.ret,
                               !.redis_client = g.redis_client]]
    ELSE [ret |-> cs.cache_client, cs |-> cs]

\* A get that never finds an entry.
cache_get_always_miss(cs, query, rag_id, up) ==
    [ret |-> <<>>, raised |-> FALSE, cs |-> client(cs, up).cs]

\* QueryCache.get: <<>> stands for None.  `up` tells whether the backend
\* answers the call; a backend call it does not answer raises.
cache_get(cs, query, rag_id, up) ==
    LET c == client(cs, up)
        key == make_key(query, rag_id)
    IN IF c.ret = "None"
       THEN [ret |-> <<>>, raised |-> FALSE, cs |-> c.cs]
       ELSE IF ~up
       THEN [ret |-> <<>>, raised |-> ~cache_except(BackendError),
             cs |-> c.cs]
       ELSE IF c.cs.store[key] # <<>>
       THEN [ret |-> <<json_loads(c.cs.store[key][1])>>, raised |-> FALSE,
             cs |-> c.cs]
       ELSE [ret |-> <<>>, raised |-> FALSE, cs |-> c.cs]

\* A set that keeps the entry a key already has (SET ... NX).
cache_set_if_absent(cs, query, rag_id, resp, ttl, up) ==
    LET c == client(cs, up)
        key == make_key(query, rag_id)
    IN IF c.ret = "None" \/ ~up
       THEN [ret |-> FALSE, raised |-> FALSE, cs |-> c.cs]
       ELSE IF c.cs.store[key] # <<>>
       THEN [ret |-> TRUE, raised |-> FALSE, cs |-> c.cs]
       ELSE [ret |-> TRUE, raised |-> FALSE,
             cs |-> [c.cs EXCEPT !.store[key] = <<json_dumps(resp)>>,
                                 !.expiry[key] = EffectiveTTL(ttl, cs.ttl)]]

\* QueryCache.set: setex(key, ttl, data) writes the entry and gives it the
\* TTL, whatever the key held.
cache_set(cs, query, rag_id, resp, ttl, up) ==
    LET c == client(cs, up)
        key == make_key(query, rag_id)
    IN IF c.ret = "None"
       THEN [ret |-> FALSE, raised |-> FALSE, cs |-> c.cs]
       ELSE IF ~up
       THEN [ret |-> FALSE, raised |-> ~cache_except(BackendError),
             cs |-> c.cs]
       ELSE [ret |-> TRUE, raised |-> FALSE,
             cs |-> [c.cs EXCEPT !.store[key] = <<json_dumps(resp)>>,
                                 !.expiry[key] = EffectiveTTL(ttl, cs.ttl)]]

\* QueryCache.delete
cache_delete(cs, query, rag_id, up) ==
    LET c == client(cs, up)
        key == make_key(query, rag_id)
    IN IF c.ret = "None"
       THEN [ret |-> FALSE, raised |-> FALSE, cs |-> c.cs]
       ELSE IF ~up
       THEN [ret |-> FALSE, raised |-> ~cache_except(BackendError),
             cs |-> c.cs]
       ELSE [ret |-> TRUE, raised |-> FALSE,
             cs |-> [c.cs EXCEPT !.store[key] = <<>>, !.expiry[key] = 0]]

\* QueryCache.clear_all: the pattern is KEY_PREFIX*, whatever rag_id is;
\* the keys found are deleted and their number is returned.
clear_all(cs, rag_id, up) ==
    LET c == client(cs, up)
        keys == {k \in DOMAIN c.cs.store : c.cs.store[k] # <<>>}
    IN IF c.ret = "None"
       THEN [ret |-> 0, raised |-> FALSE, cs |-> c.cs]
       ELSE IF ~up
       THEN [ret |-> 0, raised |-> ~cache_except(BackendError), cs |-> c.cs]
       ELSE [ret |-> Cardinality(keys), raised |-> FALSE,
             cs |-> [c.cs EXCEPT !.store = [k \in DOMAIN @ |-> <<>>],
                                 !.expiry = [k \in DOMAIN @ |-> 0]]]

\* =====================================================================
\* Metrics: observability.py
\* =====================================================================

\* Metrics.__init__; latency_window is the maxlen of the deque.
Metrics(latency_window) ==
    [requests_total |-> 0, errors_total |-> 0, cache_hits_total |-> 0,
     rate_limited_total |-> 0, latencies_ms |-> <<>>,
     latency_window |-> latency_window]

\* metrics = Metrics(): the global instance
NewMetrics == Metrics(LatencyWindow)

inc_requests(m) == [m EXCEPT !.requests_total = @ + 1]

\* An error counter that counts nothing.
inc_errors_lost(m) == m

\* An error counter that also counts the error as a rate-limited request.
inc_errors_rate_limited(m) ==
    [m EXCEPT !.errors_total = @ + 1, !.rate_limited_total = @ + 1]

inc_errors(m) == [m EXCEPT !.errors_total = @ + 1]
inc_cache_hits(m) == [m EXCEPT !.cache_hits_total = @ + 1]
inc_rate_limited(m) == [m EXCEPT !.rate_limited_total = @ + 1]

\* A Timer exit that records nothing.
record_latency_dropped(m, latency_ms) == m

\* A latency deque without maxlen.
record_latency_unbounded(m, latency_ms) ==
    [m EXCEPT !.latencies_ms = Append(@, latency_ms)]

\* deque(maxlen=latency_window).append
record_latency(m, latency_ms) ==
    [m EXCEPT !.latencies_ms =
        IF Len(@) >= m.latency_window THEN Append(Tail(@), latency_ms)
        ELSE Append(@, latency_ms)]

RECURSIVE Sum(_)
Sum(seq) == IF seq = <<>> THEN 0 ELSE Head(seq) + Sum(Tail(seq))

\* Floats with two decimals are counted in hundredths.
\* round(sum(latencies) / len(latencies), 2), 0.0 for no sample.  (With
\* whole latencies and at most four samples no quotient lies halfway
\* between two hundredths.)
avg_latency(latencies) ==
    IF latencies = <<>> THEN 0
    ELSE (200 * Sum(latencies) + Len(latencies)) \div (2 * Len(latencies))

\* round(sorted(latencies)[min(int(len * 0.95), len - 1)], 2)
p95_latency(latencies) ==
    IF latencies = <<>> THEN 0
    ELSE LET sorted_latencies == SortSeq(latencies, LAMBDA a, b : a < b)
             idx == (Len(latencies) * 95) \div 100
             last == Len(latencies) - 1
         IN 100 * sorted_latencies[(IF idx < last THEN idx ELSE last) + 1]

\* The dict get_snapshot builds from the statistics computed before.
snapshot_dict(m, avg, p95) ==
    [requests_total |-> m.requests_total,
     errors_total |-> m.errors_total,
     cache_hits_total |-> m.cache_hits_total,
     rate_limited_total |-> m.rate_limited_total,
     avg_latency_ms |-> avg, p95_latency_ms |-> p95,
     latency_samples |-> Len(m.latencies_ms)]

\* Metrics.get_snapshot on one state of the metrics.
get_snapshot(m) ==
    snapshot_dict(m, avg_latency(m.latencies_ms), p95_latency(m.latencies_ms))

\* --- the methods of Metrics called from several threads -----------------

\* The `+= 1` methods and the counter each one raises.
IncOps == {"inc_requests", "inc_errors", "inc_cache_hits", "inc_rate_limited"}

CounterOf(op) ==
    CASE op = "inc_requests" -> "requests_total"
      [] op = "inc_errors" -> "errors_total"
      [] op = "inc_cache_hits" -> "cache_hits_total"
      [] op = "inc_rate_limited" -> "rate_limited_total"

\* The latencies the threads record.
Latencies == {10, 30}

\* What a thread may call: [op, arg] (arg is the latency of record_latency).
MetricsCalls ==
    [op : IncOps \cup {"get_snapshot"}, arg : {0}]
    \cup [op : {"record_latency"}, arg : Latencies]

IdleThread ==
    [op |-> "none", pc |-> "idle", arg |-> 0, loaded |-> 0,
     stats |-> [avg |-> 0, p95 |-> 0], result |-> <<>>]

\* A lock every thread can always take.
CanAcquire_always(l) == TRUE

\* threading.Lock: `with self._lock:` enters when no thread holds it.
CanAcquire(l) == l = {}

\* A Timer whose elapsed_ms already holds a measured time inside the block.
Timer_measured_inside == [elapsed_ms |-> 1]

\* Timer(): elapsed_ms is 0 until __exit__ sets it.
Timer == [elapsed_ms |-> 0]

\* =====================================================================
\* Generation client: llm/openrouter_client.py
\* =====================================================================

\* An exception is modelled by its type: the handlers read nothing of an
\* OpenRouterError but its message, which the answers do not spell out.
OpenRouterError == [type |-> "OpenRouterError"]

\* The exception a 200 response with a malformed body raises in
\* data["choices"][0]["message"]["content"] (or response.json()).
BodyError == [type |-> "KeyError"]

\* What one HTTP post can yield: a response with a status code (a 200 one
\* with a well-formed or a malformed body), httpx.TimeoutException, or
\* another httpx.RequestError (connection error).
HttpOutcomes ==
    {[kind |-> "response", status_code |-> 200, body_ok |-> b] : b \in BOOLEAN}
    \cup {[kind |-> "response", status_code |-> s, body_ok |-> TRUE] :
              s \in {400, 401, 429, 499, 500}}
    \cup {[kind |-> k, status_code |-> 0, body_ok |-> TRUE] :
              k \in {"TimeoutException", "RequestError"}}

\* The content the provider generates with each model.
ContentOf(model) ==
    IF model = "primary" THEN "Primary model response"
    ELSE "Fallback model response"

IdleLLM ==
    [phase |-> "idle", model |-> "primary", attempt |-> 0, max_retries |-> 0,
     retries |-> 0, last_error |-> <<>>, content |-> "", used_fallback |-> FALSE,
     exc |-> <<>>,
     posts |-> [primary |-> 0, fallback |-> 0],
     sleeps |-> [primary |-> 0, fallback |-> 0]]

\* A client that retries after every failure response.
NoRetryStatus_never(status_code) == FALSE

\* `if 400 <= response.status_code < 500 and response.status_code != 429`
NoRetryStatus(status_code) ==
    400 <= status_code /\ status_code < 500 /\ status_code # 429

\* A retry loop that runs once too often.
HasNextAttempt_off_by_one(attempt, max_retries) == attempt <= max_retries

\* `if attempt < max_retries` / the bound of `range(max_retries + 1)`
HasNextAttempt(attempt, max_retries) == attempt < max_retries

\* `except OpenRouterError as e:` of call_with_fallback
CaughtByFallback(err) == err.type = "OpenRouterError"

\* max_retries=max_retries in the fallback's call_chat_completion
FallbackMaxRetries(max_retries) == max_retries

\* (In a call state l, max_retries is the argument of call_with_fallback and
\* retries the max_retries of the call_chat_completion in progress.)

\* A return that marks every result as the fallback's.
ChatReturned_marked_fallback(l, content) ==
    [l EXCEPT !.phase = "returned", !.content = content,
              !.used_fallback = TRUE]

\* call_with_fallback gets its result back from call_chat_completion and
\* sets used_fallback.
ChatReturned(l, content) ==
    [l EXCEPT !.phase = "returned", !.content = content,
              !.used_fallback = (l.model = "fallback")]

\* call_chat_completion(model=fallback_model, ...) up to its first post.
FallbackCall(l, key) ==
    LET f == [l EXCEPT !.model = "fallback", !.attempt = 0,
                       !.last_error = <<>>,
                       !.retries = FallbackMaxRetries(l.max_retries)]
    IN IF ~key
       THEN [f EXCEPT !.phase = "raised", !.exc = <<OpenRouterError>>]
       ELSE [f EXCEPT !.phase = "http"]

\* An exception leaves call_chat_completion: caught by call_with_fallback
\* when the primary raised an OpenRouterError, propagated otherwise.
ChatRaised(l, err, key) ==
    IF l.model = "primary" /\ CaughtByFallback(err)
    THEN FallbackCall(l, key)
    ELSE [l EXCEPT !.phase = "raised", !.exc = <<err>>]

\* call_with_fallback(...) up to the first post of the primary.
call_with_fallback(max_retries, key) ==
    LET p == [IdleLLM EXCEPT !.max_retries = max_retries,
                             !.retries = max_retries]
    IN IF ~key
       THEN ChatRaised(p, OpenRouterError, key)
       ELSE [p EXCEPT !.phase = "http"]

\* A retry loop that sleeps after its last attempt too.
AfterFailedAttempt_sleeps_last(l, err, key) ==
    IF HasNextAttempt(l.attempt, l.retries)
    THEN [l EXCEPT !.phase = "sleep", !.last_error = <<err>>,
                   !.sleeps[l.model] = @ + 1]
    ELSE ChatRaised([l EXCEPT !.last_error = <<err>>,
                              !.sleeps[l.model] = @ + 1], err, key)

\* End of a failed iteration of the retry loop: sleep before the next
\* attempt, or leave the loop and `raise last_error`.
AfterFailedAttempt(l, err, key) ==
    IF HasNextAttempt(l.attempt, l.retries)
    THEN [l EXCEPT !.phase = "sleep", !.last_error = <<err>>,
                   !.sleeps[l.model] = @ + 1]
    ELSE ChatRaised([l EXCEPT !.last_error = <<err>>], err, key)

\* One iteration of the retry loop of call_chat_completion, from the answer
\* to its post on.
call_chat_completion(l, o, key) ==
    LET p == [l EXCEPT !.posts[l.model] = @ + 1]
    IN IF o.kind = "response"
       THEN IF o.status_code = 200
            THEN IF o.body_ok
                 THEN ChatReturned(p, ContentOf(p.model))
                 ELSE ChatRaised(p, BodyError, key)
            ELSE IF NoRetryStatus(o.status_code)
                 THEN ChatRaised([p EXCEPT !.last_error =
                                     <<OpenRouterError>>],
                                 OpenRouterError, key)
                 ELSE AfterFailedAttempt(
                          p, OpenRouterError, key)
       ELSE AfterFailedAttempt(p, OpenRouterError, key)

\* `await asyncio.sleep(1 * (attempt + 1))` is over: next iteration.
BackoffDone(l) == [l EXCEPT !.phase = "http", !.attempt = @ + 1]

\* =====================================================================
\* Retrieval and prompting, as far as the handlers depend on them
\* =====================================================================

Chunk1 ==
    [id |-> "1", source |-> "docs/rag.txt",
     text |-> "RAG combines search and generation", score |-> 89]

\* What the embedding model and the vector index do for one retrieval:
\* model.encode raises or not, get_client() raises or not, and the chunks
\* search() returns (none for a missing collection or a failed index call).
RetrievalOutcomes ==
    { [embedding_ok |-> FALSE, client_ok |-> TRUE, hits |-> <<>>],
      [embedding_ok |-> TRUE, client_ok |-> FALSE, hits |-> <<>>],
      [embedding_ok |-> TRUE, client_ok |-> TRUE, hits |-> <<>>],
      [embedding_ok |-> TRUE, client_ok |-> TRUE, hits |-> <<Chunk1>>] }

\* retrieve_context: an embedding error gives []; search() calls
\* get_client() outside its try block, so a client error is raised.
retrieve_context(ro) ==
    IF ~ro.embedding_ok
    THEN [raised |-> FALSE, chunks |-> <<>>, embeds |-> 1, searches |-> 0]
    ELSE IF ~ro.client_ok
    THEN [raised |-> TRUE, chunks |-> <<>>, embeds |-> 1, searches |-> 1]
    ELSE [raised |-> FALSE, chunks |-> ro.hits, embeds |-> 1, searches |-> 1]

TemplateNames == {"prompts/system_default.txt", "prompts/user_default.txt"}

\* load_template of the system template, then of the user template; `files`
\* are the template files that exist on disk.  A template once loaded is
\* served from _template_cache.
load_templates(tc, files) ==
    IF "prompts/system_default.txt" \notin tc \cup files
    THEN [ok |-> FALSE, template_cache |-> tc]
    ELSE IF "prompts/user_default.txt" \notin tc \cup files
    THEN [ok |-> FALSE,
          template_cache |-> tc \cup {"prompts/system_default.txt"}]
    ELSE [ok |-> TRUE, template_cache |-> tc \cup TemplateNames]

\* =====================================================================
\* The handlers: routes/query.py
\* =====================================================================

\* SimpleQueryRequest: top_k and score_threshold have the defaults 5 and
\* 0.0 (scores are in hundredths).
SimpleQueryRequests ==
    [endpoint : {"/query/simple"}, query : Queries, rag_id : RagIds,
     top_k : {5}, score_threshold : {0}]

\* Requests for one question that set top_k and score_threshold.
TunedQueryRequests ==
    [endpoint : {"/query/simple"}, query : {<<"q">>}, rag_id : {<<"a">>},
     top_k : {1, 5}, score_threshold : {0, 95}]

\* (/query reads nothing of the question and the collection but what it
\* hands to retrieval, whose outcome is drawn freely here.)
QueryRequests ==
    [endpoint : {"/query"}, question : {<<"q">>}, rag_id : {<<"a">>}]

NoRequest == [endpoint |-> "none"]

\* `ended` is how the call_with_fallback of the request ended: returned or
\* raised, on which model, with which exception.
NoOps ==
    [path |-> "none", gets |-> 0, embeds |-> 0, searches |-> 0,
     builds |-> 0, calls |-> 0, sets |-> 0,
     ended |-> [phase |-> "idle", model |-> "primary", exc |-> <<>>]]

NoContextAnswer == "No se encontro contexto relevante para tu pregunta."
GenerationErrorAnswer == "Error al generar respuesta: <e.message>"
ExceptionAnswer == "Error: <str(e)>"
TemplateErrorAnswer == "Error: No se pudieron cargar los templates - <str(e)>"

\* SimpleQueryResponse has no cache_hit field: cache_hit is the empty set.
SimpleQueryResponse(answer, sources, chunks, latency_ms) ==
    [status_code |-> 200, answer |-> answer, sources |-> sources,
     context_chunks |-> chunks, latency_ms |-> latency_ms, cache_hit |-> {},
     detail |-> ""]

\* QueryResponse has no sources field.
QueryResponse(answer, chunks, latency_ms, cache_hit) ==
    [status_code |-> 200, answer |-> answer, sources |-> {},
     context_chunks |-> chunks, latency_ms |-> latency_ms,
     cache_hit |-> {cache_hit}, detail |-> ""]

HTTPException(status_code, detail) ==
    [status_code |-> status_code, answer |-> "", sources |-> {},
     context_chunks |-> <<>>, latency_ms |-> 0, cache_hit |-> {},
     detail |-> detail]

\* sources = list(set([c.source for c in context_chunks]))
SourcesOf(chunks) == {chunks[i].source : i \in 1..Len(chunks)}

\* Timer.__exit__: elapsed_ms = (time.perf_counter() - start_time) * 1000,
\* the time task t has measured, kept as a symbol (a positive duration).
elapsed_ms(t) == [measured_by |-> t]

\* The handler returns (or raises) and its call state is gone; Becomes
\* adds the latency sample the exit of the Timer block records.
Finished(resp, path, chunks, l, o, m, cs, tc) ==
    [pc |-> "done", response |-> <<resp>>, context_chunks |-> chunks,
     llm |-> IdleLLM,
     ops |-> [o EXCEPT !.path = path,
                       !.ended = [phase |-> l.phase, model |-> l.model,
                                  exc |-> l.exc]],
     metrics |-> m, cs |-> cs, template_cache |-> tc]

\* The handler is suspended in an await of call_with_fallback.
Suspended(chunks, l, o, m, cs, tc) ==
    [pc |-> l.phase, response |-> <<>>, context_chunks |-> chunks,
     llm |-> l, ops |-> o, metrics |-> m, cs |-> cs, template_cache |-> tc]

\* Whether the answer of a finished generation is written to the cache.
\* query_simple reaches cache.set after a success and after either except
\* clause alike.
StoresAnswer(l) == TRUE

\* query_simple from the return (or exception) of call_with_fallback on.
simple_after_generation(r, chunks, l, o, m, cs, tc, up) ==
    LET failed == l.phase = "raised"
        answer == IF ~failed THEN l.content
                  ELSE IF l.exc[1].type = "OpenRouterError"
                       THEN GenerationErrorAnswer
                       ELSE ExceptionAnswer
        m1 == IF failed THEN inc_errors(m) ELSE m
        sources == SourcesOf(chunks)
        response_to_cache ==
            [answer |-> answer, sources |-> sources, context_chunks |-> chunks]
        w == IF StoresAnswer(l)
             THEN cache_set(cs, r.query, r.rag_id, response_to_cache, 0, up)
             ELSE [ret |-> FALSE, raised |-> FALSE, cs |-> cs]
        o1 == IF StoresAnswer(l) THEN [o EXCEPT !.sets = @ + 1] ELSE o
    IN IF w.raised
       THEN \* outer `except Exception`
            Finished(SimpleQueryResponse(ExceptionAnswer, {}, <<>>,
                                         Timer.elapsed_ms),
                     "exception", chunks, l, o1, inc_errors(m1), w.cs, tc)
       ELSE Finished(SimpleQueryResponse(answer, sources, chunks,
                                         Timer.elapsed_ms),
                     IF failed THEN "generation_failed" ELSE "generated",
                     chunks, l, o1, m1, w.cs, tc)

\* Whether the no-context answer is written to the cache: query_simple
\* returns it without calling cache.set.
StoresNoContext == FALSE

\* Cached chunks filtered by the score_threshold of the request served.
cached_chunks_refiltered(cached, r) ==
    SelectSeq(cached.context_chunks, LAMBDA c : c.score >= r.score_threshold)

\* The context_chunks of the response to a cache hit: a ContextChunk for
\* every chunk of the cached response.
cached_chunks(cached, r) == cached.context_chunks

\* query_simple up to its first suspension or its return.
query_simple(r, ro, files, m, cs, tc, up, key) ==
    LET m1 == inc_requests(m)
        g == cache_get(cs, r.query, r.rag_id, up)
        o1 == [NoOps EXCEPT !.gets = 1]
    IN IF g.raised
       THEN \* outer `except Exception`
            Finished(SimpleQueryResponse(ExceptionAnswer, {}, <<>>,
                                         Timer.elapsed_ms),
                     "exception", <<>>, IdleLLM, o1, inc_errors(m1), g.cs, tc)
       ELSE IF g.ret # <<>>
       THEN \* cache hit
            Finished(SimpleQueryResponse(g.ret[1].answer, g.ret[1].sources,
                                         cached_chunks(g.ret[1], r),
                                         Timer.elapsed_ms),
                     "cache_hit", <<>>, IdleLLM, o1, inc_cache_hits(m1),
                     g.cs, tc)
       ELSE
       LET rc == retrieve_context(ro)
           o2 == [o1 EXCEPT !.embeds = rc.embeds, !.searches = rc.searches]
       IN IF rc.raised
          THEN \* outer `except Exception`
               Finished(SimpleQueryResponse(ExceptionAnswer, {}, <<>>,
                                            Timer.elapsed_ms),
                        "exception", <<>>, IdleLLM, o2, inc_errors(m1),
                        g.cs, tc)
          ELSE IF rc.chunks = <<>>
          THEN LET w == IF StoresNoContext
                        THEN cache_set(g.cs, r.query, r.rag_id,
                                 [answer |-> NoContextAnswer, sources |-> {},
                                  context_chunks |-> <<>>], 0, up)
                        ELSE [ret |-> FALSE, raised |-> FALSE, cs |-> g.cs]
                   o3 == IF StoresNoContext THEN [o2 EXCEPT !.sets = @ + 1]
                         ELSE o2
               IN Finished(SimpleQueryResponse(NoContextAnswer, {}, <<>>,
                                               Timer.elapsed_ms),
                           "no_context", <<>>, IdleLLM, o3, m1, w.cs, tc)
          ELSE
          LET lt == load_templates(tc, files)
          IN IF ~lt.ok
             THEN Finished(SimpleQueryResponse(TemplateErrorAnswer,
                                               SourcesOf(rc.chunks),
                                               rc.chunks, Timer.elapsed_ms),
                           "template_error", rc.chunks, IdleLLM, o2,
                           inc_errors(m1), g.cs, lt.template_cache)
             ELSE
             LET o3 == [o2 EXCEPT !.builds = 1, !.calls = 1]
                 l == call_with_fallback(HandlerMaxRetries, key)
             IN IF l.phase = "http"
                THEN Suspended(rc.chunks, l, o3, m1, g.cs, lt.template_cache)
                ELSE simple_after_generation(r, rc.chunks, l, o3, m1, g.cs,
                                             lt.template_cache, up)

\* query_rag from the return (or exception) of call_with_fallback on.
rag_after_generation(r, chunks, l, o, m, cs, tc) ==
    IF l.phase = "returned"
    THEN Finished(QueryResponse(l.content, chunks, Timer.elapsed_ms, FALSE),
                  "generated", chunks, l, o, m, cs, tc)
    ELSE IF l.exc[1].type = "OpenRouterError"
    THEN Finished(QueryResponse(GenerationErrorAnswer, chunks,
                                Timer.elapsed_ms, FALSE),
                  "generation_failed", chunks, l, o, inc_errors(m), cs, tc)
    ELSE \* outer `except Exception`
         Finished(HTTPException(500, "Error en procesamiento de consulta"),
                  "exception", chunks, l, o, inc_errors(m), cs, tc)

\* query_rag up to its first suspension or its return.  It never touches
\* the cache.
query_rag(r, ro, files, m, cs, tc, key) ==
    LET m1 == inc_requests(m)
        rc == retrieve_context(ro)
        o1 == [NoOps EXCEPT !.embeds = rc.embeds, !.searches = rc.searches]
    IN IF rc.raised
       THEN Finished(HTTPException(500, "Error en procesamiento de consulta"),
                     "exception", <<>>, IdleLLM, o1, inc_errors(m1), cs, tc)
       ELSE IF rc.chunks = <<>>
       THEN Finished(QueryResponse(NoContextAnswer, <<>>, Timer.elapsed_ms,
                                   FALSE),
                     "no_context", <<>>, IdleLLM, o1, m1, cs, tc)
       ELSE
       LET lt == load_templates(tc, files)
       IN IF ~lt.ok
          THEN Finished(HTTPException(500, "Template no encontrado"),
                        "template_error", rc.chunks, IdleLLM, o1,
                        inc_errors(m1), cs, lt.template_cache)
          ELSE
          LET o2 == [o1 EXCEPT !.builds = 1, !.calls = 1]
              l == call_with_fallback(HandlerMaxRetries, key)
          IN IF l.phase = "http"
             THEN Suspended(rc.chunks, l, o2, m1, cs, lt.template_cache)
             ELSE rag_after_generation(r, rc.chunks, l, o2, m1, cs,
                                       lt.template_cache)

CacheState ==
    [store |-> store, expiry |-> expiry, redis_client |-> redis_client,
     cache_client |-> cache_client, ttl |-> SingletonTTL]

\* The state after a step of task t that leaves the handler in h.
Becomes(t, r, h) ==
    /\ pc' = [pc EXCEPT ![t] = h.pc]
    /\ request' = [request EXCEPT ![t] = r]
    /\ context_chunks' = [context_chunks EXCEPT ![t] = h.context_chunks]
    /\ llm' = [llm EXCEPT ![t] = h.llm]
    /\ ops' = [ops EXCEPT ![t] = h.ops]
    /\ response' = [response EXCEPT ![t] = h.response]
    /\ metrics' = IF h.pc \in {"done", "cancelled"}
                  THEN record_latency(h.metrics, elapsed_ms(t))
                  ELSE h.metrics
    /\ store' = h.cs.store
    /\ expiry' = h.cs.expiry
    /\ redis_client' = h.cs.redis_client
    /\ cache_client' = h.cs.cache_client
    /\ template_cache' = h.template_cache
    /\ UNCHANGED <<redis_up, api_key, llmVars, threadVars, callVars, libVars>>

\* asyncio.CancelledError, thrown into the coroutine at its await when
\* the task is cancelled.
CancelledError == [type |-> "CancelledError"]

\* `except Exception` clauses that catch whatever is raised.
except_Exception_catches_all(err) == TRUE

\* The `except Exception` clauses of the handlers: CancelledError derives
\* from BaseException and passes them.
except_Exception(err) == err.type # "CancelledError"

\* The exception leaves the handler through the Timer block, whose exit
\* Becomes adds; no response is made.
Cancelled(chunks, l, o, m, cs, tc) ==
    [pc |-> "cancelled", response |-> <<>>, context_chunks |-> chunks,
     llm |-> IdleLLM,
     ops |-> [o EXCEPT !.path = "cancelled",
                       !.ended = [phase |-> l.phase, model |-> l.model,
                                  exc |-> l.exc]],
     metrics |-> m, cs |-> cs, template_cache |-> tc]

\* The handler from the await at which CancelledError is thrown: the
\* except clauses of call_chat_completion and call_with_fallback name
\* other exceptions; the handler's own are `except Exception`.
query_cancelled(r, chunks, l, o, m, cs, tc, up) ==
    LET c == [l EXCEPT !.phase = "raised", !.exc = <<CancelledError>>]
    IN IF except_Exception(CancelledError)
       THEN IF r.endpoint = "/query/simple"
            THEN simple_after_generation(r, chunks, c, o, m, cs, tc, up)
            ELSE rag_after_generation(r, chunks, c, o, m, cs, tc)
       ELSE Cancelled(chunks, c, o, m, cs, tc)

\* POST /query/simple arrives and runs to its first suspension.
QuerySimple(t, r, ro, files) ==
    /\ pc[t] = "idle"
    /\ Becomes(t, r, query_simple(r, ro, files, metrics, CacheState,
                                  template_cache, redis_up, api_key))

\* POST /query arrives and runs to its first suspension.
QueryRag(t, r, ro, files) ==
    /\ pc[t] = "idle"
    /\ Becomes(t, r, query_rag(r, ro, files, metrics, CacheState,
                               template_cache, api_key))

\* The provider answers the post task t awaits; the handler runs on to its
\* next suspension or its return.
HttpResponse(t, o) ==
    /\ pc[t] = "http"
    /\ LET l == call_chat_completion(llm[t], o, api_key)
           r == request[t]
       IN Becomes(t, r,
            IF l.phase \in {"http", "sleep"}
            THEN Suspended(context_chunks[t], l, ops[t], metrics, CacheState,
                           template_cache)
            ELSE IF r.endpoint = "/query/simple"
            THEN simple_after_generation(r, context_chunks[t], l, ops[t],
                     metrics, CacheState, template_cache, redis_up)
            ELSE rag_after_generation(r, context_chunks[t], l, ops[t],
                     metrics, CacheState, template_cache))

\* The backoff sleep of task t is over: it posts again.
BackoffElapsed(t) ==
    /\ pc[t] = "sleep"
    /\ Becomes(t, request[t],
               Suspended(context_chunks[t], BackoffDone(llm[t]), ops[t],
                         metrics, CacheState, template_cache))

\* Task t is cancelled while it awaits the post or the backoff sleep.
Cancel(t) ==
    /\ pc[t] \in {"http", "sleep"}
    /\ Becomes(t, request[t],
               query_cancelled(request[t], context_chunks[t], llm[t],
                               ops[t], metrics, CacheState, template_cache,
                               redis_up))

\* The Redis backend stops answering / answers again.
RedisDown ==
    /\ redis_up
    /\ redis_up' = FALSE
    /\ UNCHANGED <<taskVars, cacheVars, template_cache, metrics, api_key,
                   llmVars, threadVars, callVars, libVars>>

RedisUp ==
    /\ ~redis_up
    /\ redis_up' = TRUE
    /\ UNCHANGED <<taskVars, cacheVars, template_cache, metrics, api_key,
                   llmVars, threadVars, callVars, libVars>>

\* The TTL of an entry (given to setex) runs out: Redis drops the entry.
Expire(k) ==
    /\ store[k] # <<>>
    /\ store' = [store EXCEPT ![k] = <<>>]
    /\ expiry' = [expiry EXCEPT ![k] = 0]
    /\ UNCHANGED <<taskVars, redis_client, cache_client, redis_up,
                   template_cache, metrics, api_key, llmVars, threadVars,
                   callVars, libVars>>

\* ---------------------------------------------------------------------
\* A direct caller of call_with_fallback whose transport records the calls
\* ---------------------------------------------------------------------

Generate(max_retries) ==
    /\ gen.phase = "idle"
    /\ gen' = call_with_fallback(max_retries, api_key)
    /\ UNCHANGED <<transport_log, taskVars, cacheVars, redis_up,
                   template_cache, metrics, api_key, threadVars, callVars, libVars>>

TransportAnswers(o) ==
    /\ gen.phase = "http"
    /\ gen' = call_chat_completion(gen, o, api_key)
    /\ transport_log' = Append(transport_log, [model |-> gen.model, outcome |-> o])
    /\ UNCHANGED <<taskVars, cacheVars, redis_up, template_cache, metrics,
                   api_key, threadVars, callVars, libVars>>

GenerateBackoffElapsed ==
    /\ gen.phase = "sleep"
    /\ gen' = BackoffDone(gen)
    /\ UNCHANGED <<transport_log, taskVars, cacheVars, redis_up,
                   template_cache, metrics, api_key, threadVars, callVars, libVars>>

\* ---------------------------------------------------------------------
\* Threads calling the methods of one Metrics instance
\* ---------------------------------------------------------------------

serviceVars ==
    <<taskVars, cacheVars, redis_up, template_cache, api_key, llmVars,
      callVars, libVars>>

\* Thread th moves on to pc value p.
Moves(th, p) == threads' = [threads EXCEPT ![th].pc = p]

\* Thread th calls a method of the instance.
MetricsCall(th, c) ==
    /\ threads[th].pc = "idle"
    /\ threads' = [threads EXCEPT ![th] =
                      [IdleThread EXCEPT !.op = c.op, !.arg = c.arg,
                                         !.pc = "acquire"]]
    /\ UNCHANGED <<metrics, lock, serviceVars>>

\* `with self._lock:` is entered.
Acquire(th) ==
    /\ threads[th].pc = "acquire"
    /\ CanAcquire(lock)
    /\ lock' = lock \cup {th}
    /\ Moves(th, "locked")
    /\ UNCHANGED <<metrics, serviceVars>>

\* `self._x += 1`: the attribute is read ...
LoadCounter(th) ==
    /\ threads[th].pc = "locked"
    /\ threads[th].op \in IncOps
    /\ threads' = [threads EXCEPT
                      ![th].loaded = metrics[CounterOf(threads[th].op)],
                      ![th].pc = "loaded"]
    /\ UNCHANGED <<metrics, lock, serviceVars>>

\* ... and what was read, plus one, is written back.
StoreCounter(th) ==
    /\ threads[th].pc = "loaded"
    /\ metrics' = [metrics EXCEPT ![CounterOf(threads[th].op)] =
                      threads[th].loaded + 1]
    /\ Moves(th, "release")
    /\ UNCHANGED <<lock, serviceVars>>

\* record_latency: self._latencies_ms.append(latency_ms)
AppendLatency(th) ==
    /\ threads[th].pc = "locked"
    /\ threads[th].op = "record_latency"
    /\ metrics' = record_latency(metrics, threads[th].arg)
    /\ Moves(th, "release")
    /\ UNCHANGED <<lock, serviceVars>>

\* get_snapshot: the average and the p95 are computed from the deque ...
ReadLatencies(th) ==
    /\ threads[th].pc = "locked"
    /\ threads[th].op = "get_snapshot"
    /\ threads' = [threads EXCEPT
                      ![th].stats = [avg |-> avg_latency(metrics.latencies_ms),
                                     p95 |-> p95_latency(metrics.latencies_ms)],
                      ![th].pc = "stats"]
    /\ UNCHANGED <<metrics, lock, serviceVars>>

\* ... then the dict is built from the counters and the deque's length.
ReadCounters(th) ==
    /\ threads[th].pc = "stats"
    /\ threads' = [threads EXCEPT
                      ![th].result = <<snapshot_dict(metrics,
                                                     threads[th].stats.avg,
                                                     threads[th].stats.p95)>>,
                      ![th].pc = "release"]
    /\ UNCHANGED <<metrics, lock, serviceVars>>

\* The `with` block is left and the method returns.
Release(th) ==
    /\ threads[th].pc = "release"
    /\ lock' = lock \ {th}
    /\ Moves(th, "done")
    /\ UNCHANGED <<metrics, serviceVars>>

\* ---------------------------------------------------------------------
\* A direct caller of the QueryCache methods
\* ---------------------------------------------------------------------

\* The responses the caller stores.
CacheResponses ==
    { [answer |-> ContentOf(model), sources |-> {Chunk1.source},
       context_chunks |-> <<Chunk1>>] : model \in {"primary", "fallback"} }

NoResponse == [answer |-> "", sources |-> {}, context_chunks |-> <<>>]

\* Half the default TTL: the unit in which time passes for the caller.
Tick == DEFAULT_TTL \div 2

\* The ttl arguments of set: absent, or one Tick.
CallTTLs == {0, Tick}

\* The last call: its arguments; the key _make_key gave; whether the
\* backend was up to answer it (backend_ok); what it returned (found for get, ok
\* for set and delete, count for clear_all) or whether it raised; what the
\* key held before a set (replaced); the time gone by since the call
\* (elapsed, counted up to two Ticks); for a get, the successful set
\* that came just before it, if one did (prior); and whether the cache
\* had been used first with the backend unreachable (degraded).
NoCall ==
    [op |-> "none", query |-> <<>>, rag_id |-> <<>>, response |-> NoResponse,
     ttl |-> 0, key |-> <<>>, backend_ok |-> FALSE, found |-> <<>>,
     ok |-> FALSE, count |-> 0, raised |-> FALSE, replaced |-> <<>>,
     elapsed |-> 0, prior |-> <<>>, degraded |-> FALSE]

\* An earlier first use found the backend unreachable: get_redis_client
\* has set the global and returned None, and the instance holds no client.
Degraded == redis_client = "client" /\ cache_client = "None"

\* The call leaves the cache in state cs.
CacheBecomes(cs) ==
    /\ store' = cs.store
    /\ expiry' = cs.expiry
    /\ redis_client' = cs.redis_client
    /\ cache_client' = cs.cache_client
    /\ UNCHANGED <<taskVars, redis_up, template_cache, metrics, api_key,
                   llmVars, threadVars, libVars>>

\* await cache.get(query, rag_id)
CacheGet(a) ==
    LET g == cache_get(CacheState, a[1], a[2], redis_up)
    IN /\ cache_call' =
             [NoCall EXCEPT
                !.op = "get", !.query = a[1], !.rag_id = a[2],
                !.key = make_key(a[1], a[2]),
                !.backend_ok = redis_up, !.degraded = Degraded,
                !.found = g.ret, !.raised = g.raised,
                !.prior =
                    IF cache_call.op = "set" /\ cache_call.ok
                    THEN <<[query |-> cache_call.query,
                            rag_id |-> cache_call.rag_id,
                            response |-> cache_call.response,
                            replaced |-> cache_call.replaced,
                            ttl |-> cache_call.ttl,
                            elapsed |-> cache_call.elapsed,
                            degraded |-> cache_call.degraded]>>
                    ELSE <<>>]
       /\ CacheBecomes(g.cs)

\* await cache.set(query, rag_id, response, ttl)
CacheSet(a, resp, ttl) ==
    LET w == cache_set(CacheState, a[1], a[2], resp, ttl, redis_up)
        key == make_key(a[1], a[2])
    IN /\ cache_call' =
             [NoCall EXCEPT
                !.op = "set", !.query = a[1], !.rag_id = a[2],
                !.response = resp, !.ttl = ttl, !.key = key,
                !.backend_ok = redis_up, !.degraded = Degraded,
                !.ok = w.ret, !.raised = w.raised,
                !.replaced = IF store[key] = <<>> THEN <<>>
                             ELSE <<json_loads(store[key][1])>>]
       /\ CacheBecomes(w.cs)

\* await cache.delete(query, rag_id)
CacheDelete(a) ==
    LET d == cache_delete(CacheState, a[1], a[2], redis_up)
    IN /\ cache_call' =
             [NoCall EXCEPT
                !.op = "delete", !.query = a[1], !.rag_id = a[2],
                !.key = make_key(a[1], a[2]),
                !.backend_ok = redis_up, !.degraded = Degraded,
                !.ok = d.ret, !.raised = d.raised]
       /\ CacheBecomes(d.cs)

\* await cache.clear_all(rag_id); <<>> stands for no rag_id.
CacheClearAll(rag_id) ==
    LET c == clear_all(CacheState, rag_id, redis_up)
    IN /\ cache_call' =
             [NoCall EXCEPT
                !.op = "clear_all", !.rag_id = rag_id,
                !.backend_ok = redis_up, !.degraded = Degraded,
                !.count = c.ret, !.raised = c.raised]
       /\ CacheBecomes(c.cs)

\* One Tick goes by: Redis drops the entries whose TTL has run out.
Elapse ==
    /\ \E k \in AllKeys : expiry[k] > 0
    /\ expiry' = [k \in AllKeys |->
                     IF expiry[k] > Tick THEN expiry[k] - Tick ELSE 0]
    /\ store' = [k \in AllKeys |->
                    IF expiry[k] > Tick THEN store[k] ELSE <<>>]
    /\ cache_call' =
          [cache_call EXCEPT
             !.elapsed = IF @ + Tick < 2 * Tick THEN @ + Tick ELSE 2 * Tick]
    /\ UNCHANGED <<taskVars, redis_client, cache_client, redis_up,
                   template_cache, metrics, api_key, llmVars, threadVars, libVars>>

\* =====================================================================
\* Vector search: qdrant_client.py and retrieval.py
\* =====================================================================

MaxHits == 3

\* Scores are in hundredths: 95 stands for 0.95.
TopKs == {1, 2}
ScoreThresholds == { <<>>, <<90>> }

\* The payload of a raw hit: the attribute is absent, is None, or is a
\* dict in which each key is absent (<<>>) or has a value.
NoItems == [source |-> <<>>, source_path |-> <<>>, text |-> <<>>]

PayloadDict(items) == [kind |-> "dict", items |-> items]

\* The raw hits the index client hands back: id and score are absent
\* (<<>>) or have a value.
Hits ==
    { [id |-> <<"1">>, score |-> <<95>>,
       payload |-> PayloadDict([source |-> <<"docs/a.txt">>,
                                source_path |-> <<"raw/a.txt">>,
                                text |-> <<"alpha">>])],
      [id |-> <<"2">>, score |-> <<50>>,
       payload |-> PayloadDict([source |-> <<>>,
                                source_path |-> <<"raw/b.txt">>,
                                text |-> <<"beta">>])],
      [id |-> <<>>, score |-> <<>>,
       payload |-> [kind |-> "absent", items |-> NoItems]],
      [id |-> <<"4">>, score |-> <<92>>,
       payload |-> [kind |-> "None", items |-> NoItems]],
      [id |-> <<"5">>, score |-> <<91>>, payload |-> PayloadDict(NoItems)] }

\* The responses of the index: up to MaxHits raw hits in any order.
IndexResponses ==
    UNION { [1..n -> Hits] : n \in 0..MaxHits }

\* What the embedding model and the index client do during one call:
\* model.encode returns or raises; QdrantClient(...) returns or raises;
\* get_collection returns or raises; the client has a query_points
\* method or not, which raises, returns an object with .points, or
\* returns the list itself; the client has a search method or not, which
\* returns or raises; hits is what the method that returns hands back.
UsualIndex ==
    [embedding_ok |-> TRUE, client_ok |-> TRUE, collection_exists |-> TRUE,
     has_query_points |-> TRUE, query_points |-> "points",
     has_search |-> TRUE, search_ok |-> TRUE, hits |-> <<>>]

IndexEnvs ==
    { [UsualIndex EXCEPT !.embedding_ok = FALSE],
      [UsualIndex EXCEPT !.client_ok = FALSE],
      [UsualIndex EXCEPT !.collection_exists = FALSE] }
    \cup
    { [UsualIndex EXCEPT !.collection_exists = FALSE, !.hits = h] :
        h \in {r \in IndexResponses : Len(r) = 1} }
    \cup
    { [UsualIndex EXCEPT !.has_query_points = hq, !.query_points = qp,
                         !.has_search = hs, !.search_ok = so, !.hits = h] :
        hq \in BOOLEAN, qp \in {"raises", "points", "list"},
        hs \in BOOLEAN, so \in BOOLEAN, h \in IndexResponses }

\* get_embedding: the vector stands for the text it encodes.
get_embedding(text, ix) ==
    [raised |-> ~ix.embedding_ok, ret |-> <<"vector", text>>]

\* get_client: the singleton is created on first use; a failure of the
\* constructor is logged and raised again.
get_client(qc, ix) ==
    IF qc # "None"
    THEN [raised |-> FALSE, qc |-> qc]
    ELSE IF ix.client_ok
    THEN [raised |-> FALSE, qc |-> "client"]
    ELSE [raised |-> TRUE, qc |-> "None"]

\* dict.get(key, default)
dict_get(items, key, default) ==
    IF items[key] = <<>> THEN default ELSE items[key][1]

\* One call issued to the index client.
IndexCall(method, collection_name, query_vector, limit, score_threshold) ==
    [method |-> method, collection_name |-> collection_name,
     query |-> query_vector, limit |-> limit,
     score_threshold |-> score_threshold]

\* The body of the formatting loop of search for one hit: the chunk
\* appended, or nothing when an exception sends the loop to `continue`
\* (.get on a payload that is None).
format_hit(hit) ==
    IF hit.payload.kind = "None"
    THEN <<>>
    ELSE <<[id |-> IF hit.id = <<>> THEN "unknown" ELSE hit.id[1],
            source |-> dict_get(hit.payload.items, "source",
                          dict_get(hit.payload.items, "source_path",
                                   "unknown")),
            text |-> dict_get(hit.payload.items, "text", ""),
            score |-> IF hit.score = <<>> THEN 0 ELSE hit.score[1]]>>

\* formatted_results after the loop over results.
RECURSIVE format_results(_)
format_results(results) ==
    IF results = <<>>
    THEN <<>>
    ELSE format_hit(Head(results)) \o format_results(Tail(results))

\* A search that goes to the nearest-neighbour query whether or not the
\* collection exists.
search_unchecked(collection_name, query_vector, top_k, score_threshold, ix, qc) ==
    LET c == get_client(qc, ix)
        queried ==
            IndexCall("query_points", collection_name, query_vector,
                      top_k, score_threshold)
    IN IF c.raised
       THEN [raised |-> TRUE, ret |-> <<>>, log |-> <<>>, qc |-> c.qc]
       ELSE [raised |-> FALSE, ret |-> format_results(ix.hits),
             log |-> <<queried>>, qc |-> c.qc]

\* A search that also tries the legacy method when query_points returns
\* no hit.
search_legacy_on_empty(collection_name, query_vector, top_k, score_threshold, ix, qc) ==
    LET c == get_client(qc, ix)
        checked ==
            IndexCall("get_collection", collection_name, <<>>, 0, <<>>)
        queried ==
            IndexCall("query_points", collection_name, query_vector,
                      top_k, score_threshold)
        searched ==
            IndexCall("search", collection_name, query_vector,
                      top_k, score_threshold)
        log1 == IF ix.has_query_points
                THEN <<checked, queried>> ELSE <<checked>>
        results1 == IF /\ ix.has_query_points /\ ix.query_points # "raises"
                       /\ ix.hits # <<>>
                    THEN <<ix.hits>> ELSE <<>>
        tries_search == results1 = <<>> /\ ix.has_search
        log2 == IF tries_search THEN Append(log1, searched) ELSE log1
        results2 == IF tries_search
                    THEN IF ix.search_ok THEN <<ix.hits>> ELSE <<>>
                    ELSE results1
    IN IF c.raised
       THEN [raised |-> TRUE, ret |-> <<>>, log |-> <<>>, qc |-> c.qc]
       ELSE IF ~ix.collection_exists
       THEN [raised |-> FALSE, ret |-> <<>>, log |-> <<checked>>,
             qc |-> c.qc]
       ELSE IF results2 = <<>>
       THEN [raised |-> FALSE, ret |-> <<>>, log |-> log2, qc |-> c.qc]
       ELSE [raised |-> FALSE, ret |-> format_results(results2[1]),
             log |-> log2, qc |-> c.qc]

\* search: get_client() is called before the try block; inside it, a
\* missing collection gives []; query_points is tried first and the
\* search method second; results is <<>> for None and <<hits>> otherwise.
search(collection_name, query_vector, top_k, score_threshold, ix, qc) ==
    LET c == get_client(qc, ix)
        checked ==
            IndexCall("get_collection", collection_name, <<>>, 0, <<>>)
        queried ==
            IndexCall("query_points", collection_name, query_vector,
                      top_k, score_threshold)
        searched ==
            IndexCall("search", collection_name, query_vector,
                      top_k, score_threshold)
        log1 == IF ix.has_query_points
                THEN <<checked, queried>> ELSE <<checked>>
        results1 == IF ix.has_query_points /\ ix.query_points # "raises"
                    THEN <<ix.hits>> ELSE <<>>
        tries_search == results1 = <<>> /\ ix.has_search
        log2 == IF tries_search THEN Append(log1, searched) ELSE log1
        results2 == IF tries_search
                    THEN IF ix.search_ok THEN <<ix.hits>> ELSE <<>>
                    ELSE results1
    IN IF c.raised
       THEN [raised |-> TRUE, ret |-> <<>>, log |-> <<>>, qc |-> c.qc]
       ELSE IF ~ix.collection_exists
       THEN [raised |-> FALSE, ret |-> <<>>, log |-> <<checked>>,
             qc |-> c.qc]
       ELSE IF results2 = <<>>
       THEN [raised |-> FALSE, ret |-> <<>>, log |-> log2, qc |-> c.qc]
       ELSE [raised |-> FALSE, ret |-> format_results(results2[1]),
             log |-> log2, qc |-> c.qc]

\* retrieve_context, with the embedding model and the index of the call:
\* an embedding error gives []; the collection searched is rag_id itself.
retrieve_context_search(rag_id, question, top_k, score_threshold, ix, qc) ==
    LET e == get_embedding(question, ix)
        collection_name == rag_id
    IN IF e.raised
       THEN [raised |-> FALSE, ret |-> <<>>, log |-> <<>>, qc |-> qc]
       ELSE search(collection_name, e.ret, top_k, score_threshold, ix, qc)

\* The calls of retrieve_context that are made.
RetrievalQuestion == <<"what is rag">>

NoRetrievalCall ==
    [stage |-> "none", rag_id |-> <<>>, question |-> <<>>, top_k |-> 0,
     score_threshold |-> <<>>, ix |-> UsualIndex, client_before |-> "None",
     raised |-> FALSE, ret |-> <<>>, log |-> <<>>]

RetrievalCalls ==
    { [NoRetrievalCall EXCEPT
         !.stage = "called", !.rag_id = r, !.question = RetrievalQuestion,
         !.top_k = k, !.score_threshold = t, !.ix = ix] :
        r \in RagIds, k \in TopKs, t \in ScoreThresholds, ix \in IndexEnvs }

\* await retrieve_context(rag_id, question, top_k, score_threshold)
RetrieveContext ==
    LET c == retrieval_call
        r == retrieve_context_search(c.rag_id, c.question, c.top_k,
                                     c.score_threshold, c.ix, qdrant_client)
    IN /\ c.stage = "called"
       /\ retrieval_call' =
             [c EXCEPT !.stage = "returned", !.client_before = qdrant_client,
                       !.raised = r.raised, !.ret = r.ret, !.log = r.log]
       /\ qdrant_client' = r.qc
       /\ UNCHANGED <<taskVars, cacheVars, redis_up, template_cache,
                      metrics, api_key, llmVars, threadVars, callVars,
                      prompt_call, chunk_call>>

\* =====================================================================
\* Prompt building: prompting.py
\* =====================================================================

\* Texts are sequences of pieces; a placeholder is three pieces.
Placeholder(name) == <<"{", name, "}">>

\* str.replace(old, new): every occurrence of old, found from left to
\* right without overlap, is replaced by new; what is inserted is not
\* searched again by the same call.
RECURSIVE str_replace(_, _, _)
str_replace(s, old, new) ==
    IF Len(s) < Len(old)
    THEN s
    ELSE IF SubSeq(s, 1, Len(old)) = old
    THEN new \o str_replace(SubSeq(s, Len(old) + 1, Len(s)), old, new)
    ELSE <<Head(s)>> \o str_replace(Tail(s), old, new)

\* f"{score:.2f}" of a score in hundredths.
format_score(score) ==
    <<ToString(score \div 100), ".", ToString((score % 100) \div 10),
      ToString(score % 10)>>

\* The part format_context makes of chunk number i.
formatted_part(i, chunk) ==
    <<"[Fuente ", ToString(i), ": ", chunk.source, " (relevancia: ">>
    \o format_score(chunk.score) \o <<")]", "\n">> \o chunk.text

RECURSIVE join_parts(_, _)
join_parts(chunks, i) ==
    IF i > Len(chunks)
    THEN <<>>
    ELSE (IF i = 1 THEN <<>> ELSE <<"\n\n---\n\n">>)
         \o formatted_part(i, chunks[i]) \o join_parts(chunks, i + 1)

\* format_context
format_context(chunks) ==
    IF chunks = <<>>
    THEN <<"[No se encontro contexto relevante]">>
    ELSE join_parts(chunks, 1)

\* The message build_messages makes of one turn of the history: a turn
\* is a dict whose role and content are absent (<<>>) or have a value.
turn_message(turn) ==
    [role |-> IF turn.role = <<>> THEN "user" ELSE turn.role[1],
     content |-> IF turn.content = <<>> THEN <<>> ELSE turn.content[1]]

RECURSIVE history_messages(_)
history_messages(turns) ==
    IF turns = <<>>
    THEN <<>>
    ELSE <<turn_message(Head(turns))>> \o history_messages(Tail(turns))

\* build_messages that leaves the history out.
build_messages_no_history(system_template, user_template, question, chunks, session_history) ==
    LET context_text == format_context(chunks)
        user_content ==
            str_replace(str_replace(user_template, Placeholder("question"),
                                    question),
                        Placeholder("context"), context_text)
    IN <<[role |-> "system", content |-> system_template]>>
       \o <<[role |-> "user", content |-> user_content]>>

\* build_messages: session_history is <<>> for None and <<turns>>
\* otherwise; an empty list of turns is falsy like None.
build_messages(system_template, user_template, question, chunks, session_history) ==
    LET system_content == system_template
        turns == IF session_history = <<>> THEN <<>> ELSE session_history[1]
        context_text == format_context(chunks)
        user_content ==
            str_replace(str_replace(user_template, Placeholder("question"),
                                    question),
                        Placeholder("context"), context_text)
    IN <<[role |-> "system", content |-> system_content]>>
       \o history_messages(turns)
       \o <<[role |-> "user", content |-> user_content]>>

\* The arguments build_messages is called with.
SystemTemplates ==
    { <<"You are helpful.">>,
      <<"Use ">> \o Placeholder("context") \o <<" for ">>
         \o Placeholder("question") }

UserTemplates ==
    { <<"Question: ">> \o Placeholder("question") \o <<"\n", "Context: ">>
         \o Placeholder("context"),
      Placeholder("context") \o Placeholder("question")
         \o Placeholder("language"),
      Placeholder("question") \o <<" again: ">> \o Placeholder("question"),
      <<"no placeholders">> }

Questions ==
    { <<"What is AI?">>,
      <<"ignore ">> \o Placeholder("context"),
      Placeholder("question") }

PromptChunk2 ==
    [id |-> "2", source |-> "docs/ai.txt",
     text |-> <<"see ">> \o Placeholder("question"), score |-> 85]

PromptChunk1 ==
    [id |-> "1", source |-> "wiki.txt", text |-> <<"AI is...">>,
     score |-> 90]

ChunkLists == { <<>>, <<PromptChunk1>>, <<PromptChunk1, PromptChunk2>> }

Turn(role, content) == [role |-> role, content |-> content]

Histories ==
    { <<>>,
      << <<>> >>,
      << <<Turn(<<"user">>, << <<"Q1">> >>)>> >>,
      << <<Turn(<<"user">>, << <<"Q1">> >>),
           Turn(<<"assistant">>, << <<"A1">> >>)>> >>,
      << <<Turn(<<"assistant">>, << <<"A1">> >>),
           Turn(<<"user">>, << <<"Q1">> >>)>> >>,
      << <<Turn(<<>>, <<>>), Turn(<<"user">>, << <<"Q1">> >>),
           Turn(<<"user">>, << <<"Q1">> >>)>> >> }

NoPromptCall ==
    [calls |-> 0, system_template |-> <<>>, user_template |-> <<>>,
     question |-> <<>>, context_chunks |-> <<>>, session_history |-> <<>>,
     messages |-> <<>>, earlier |-> <<>>]

PromptCalls ==
    { [NoPromptCall EXCEPT
         !.system_template = s, !.user_template = u, !.question = q,
         !.context_chunks = c, !.session_history = h] :
        s \in SystemTemplates, u \in UserTemplates, q \in Questions,
        c \in ChunkLists, h \in Histories }

\* How many times the caller repeats its call.
MaxPromptCalls == 2

\* build_messages(system_template, user_template, question,
\* context_chunks, session_history) is called; earlier keeps what the
\* call before returned.
BuildMessages ==
    LET c == prompt_call
    IN /\ c.calls < MaxPromptCalls
       /\ prompt_call' =
             [c EXCEPT
                !.calls = @ + 1,
                !.messages =
                    build_messages(c.system_template, c.user_template,
                                   c.question, c.context_chunks,
                                   c.session_history),
                !.earlier = IF c.calls = 0 THEN <<>> ELSE <<c.messages>>]
       /\ UNCHANGED <<taskVars, cacheVars, redis_up, template_cache,
                      metrics, api_key, llmVars, threadVars, callVars,
                      qdrant_client, retrieval_call, chunk_call>>

\* =====================================================================
\* Ingestion scripts: scripts/ingest_txt.py, scripts/ingest_pdf.py
\* (chunk_text is the same function in both)
\* =====================================================================

\* chunk_text is called with texts of up to MaxTextLen characters and a
\* chunk_size of up to MaxChunkSize; MaxIterations iterations of its loop
\* are followed.
MaxTextLen == 6
MaxChunkSize == 5
MaxIterations == 8

\* Texts are sequences of characters: a letter, the separators' characters.
Chars == {"a", " ", ".", "\n"}
Texts == UNION {[1..n -> Chars] : n \in 0..MaxTextLen}

\* for sep in ['. ', '.\n', '\n\n', '\n', ' ']
Separators ==
    << <<".", " ">>, <<".", "\n">>, <<"\n", "\n">>, <<"\n">>, <<" ">> >>

\* A slice bound as Python reads it: a negative index counts from the
\* end, and the bound is clamped to 0..n.
slice_index(i, n) ==
    IF i < 0 THEN (IF n + i < 0 THEN 0 ELSE n + i)
    ELSE IF i > n THEN n ELSE i

\* text[a:b]
str_slice(text, a, b) ==
    LET lo == slice_index(a, Len(text))
        hi == slice_index(b, Len(text))
    IN IF lo >= hi THEN <<>> ELSE SubSeq(text, lo + 1, hi)

\* text.rfind(sub, a, b): the highest index at which sub lies within
\* text[a:b], -1 when there is none.
rfind(text, sub, a, b) ==
    LET lo == slice_index(a, Len(text))
        hi == slice_index(b, Len(text))
        at == {i \in lo..(hi - Len(sub)) :
                  SubSeq(text, i + 1, i + Len(sub)) = sub}
    IN IF at = {} THEN -1 ELSE CHOOSE i \in at : \A j \in at : j <= i

\* str.strip(): leading and trailing whitespace removed.
RECURSIVE str_lstrip(_)
str_lstrip(s) ==
    IF s # <<>> /\ s[1] \in {" ", "\n"} THEN str_lstrip(Tail(s)) ELSE s

RECURSIVE str_rstrip(_)
str_rstrip(s) ==
    IF s # <<>> /\ s[Len(s)] \in {" ", "\n"}
    THEN str_rstrip(SubSeq(s, 1, Len(s) - 1))
    ELSE s

str_strip(s) == str_rstrip(str_lstrip(s))

\* The end of the chunk that starts at start: start + chunk_size, moved
\* back behind the last occurrence of the first separator found in the
\* second half of the chunk when the text goes on after it.
chunk_end(text, start, chunk_size) ==
    LET end == start + chunk_size
        last_sep(k) ==
            rfind(text, Separators[k], start + chunk_size \div 2, end)
        found == {k \in 1..Len(Separators) : last_sep(k) # -1}
    IN IF end < Len(text) /\ found # {}
       THEN LET k == CHOOSE k \in found : \A j \in found : k <= j
            IN last_sep(k) + Len(Separators[k])
       ELSE end

NoChunkCall ==
    [stage |-> "none", text |-> <<>>, chunk_size |-> 1, overlap |-> 0,
     start |-> 0, chunks |-> <<>>, iterations |-> 0]

\* chunk_text(text, chunk_size, overlap) up to its return of [text] or to
\* the head of its while loop.
chunk_text(text, chunk_size, overlap) ==
    LET c == [NoChunkCall EXCEPT !.text = text, !.chunk_size = chunk_size,
                                 !.overlap = overlap]
    IN IF Len(text) <= chunk_size
       THEN [c EXCEPT !.stage = "returned", !.chunks = <<text>>]
       ELSE [c EXCEPT !.stage = "loop"]

\* One iteration of `while start < len(text)`: the chunk is cut and
\* appended when it is not blank, start moves to end - overlap, and the
\* loop is left when start has reached the end of the text.
chunk_text_iteration(c) ==
    LET end == chunk_end(c.text, c.start, c.chunk_size)
        chunk == str_strip(str_slice(c.text, c.start, end))
        start == end - c.overlap
    IN [c EXCEPT !.chunks = IF chunk # <<>> THEN Append(@, chunk) ELSE @,
                 !.start = start,
                 !.iterations = @ + 1,
                 !.stage = IF start >= Len(c.text) THEN "returned"
                           ELSE "loop"]

\* The calls of chunk_text: any text, chunk_size >= 1 and
\* 0 <= overlap < chunk_size.
ChunkArgs ==
    {a \in [text : Texts, chunk_size : 1..MaxChunkSize,
            overlap : 0..(MaxChunkSize - 1)] : a.overlap < a.chunk_size}

ChunkCalls == {chunk_text(a.text, a.chunk_size, a.overlap) : a \in ChunkArgs}

\* The while loop of a chunk_text call runs one iteration (the
\* iterations followed are MaxIterations at most).
ChunkTextIteration ==
    /\ chunk_call.stage = "loop"
    /\ chunk_call.iterations < MaxIterations
    /\ chunk_call' = chunk_text_iteration(chunk_call)
    /\ UNCHANGED <<taskVars, cacheVars, redis_up, template_cache,
                   metrics, api_key, llmVars, threadVars, callVars,
                   qdrant_client, retrieval_call, prompt_call>>

\* =====================================================================
\* Specifications
\* =====================================================================

\* The process after start-up, with m as its Metrics instance.
InitWith(m) ==
    /\ pc = [t \in Tasks |-> "idle"]
    /\ request = [t \in Tasks |-> NoRequest]
    /\ context_chunks = [t \in Tasks |-> <<>>]
    /\ llm = [t \in Tasks |-> IdleLLM]
    /\ ops = [t \in Tasks |-> NoOps]
    /\ response = [t \in Tasks |-> <<>>]
    /\ store = [k \in AllKeys |-> <<>>]
    /\ redis_up \in BOOLEAN
    /\ redis_client = "None"
    /\ cache_client = "None"
    /\ template_cache = {}
    /\ metrics = m
    /\ api_key \in BOOLEAN
    /\ gen = IdleLLM
    /\ transport_log = <<>>
    /\ lock = {}
    /\ threads = [th \in Threads |-> IdleThread]
    /\ expiry = [k \in AllKeys |-> 0]
    /\ cache_call = NoCall

\* No call of retrieve_context or build_messages is under way.
NoRetrieval == qdrant_client = "None" /\ retrieval_call = NoRetrievalCall

NoLibCalls ==
    NoRetrieval /\ prompt_call = NoPromptCall /\ chunk_call = NoChunkCall

Init == InitWith(NewMetrics) /\ NoLibCalls

\* The service handling requests.
Next ==
    \/ \E t \in Tasks, r \in SimpleQueryRequests, ro \in RetrievalOutcomes,
          files \in SUBSET TemplateNames : QuerySimple(t, r, ro, files)
    \/ \E t \in Tasks, r \in QueryRequests, ro \in RetrievalOutcomes,
          files \in SUBSET TemplateNames : QueryRag(t, r, ro, files)
    \/ \E t \in Tasks, o \in HttpOutcomes : HttpResponse(t, o)
    \/ \E t \in Tasks : BackoffElapsed(t)
    \/ RedisDown
    \/ RedisUp
    \/ \E k \in AllKeys : Expire(k)

Spec == Init /\ [][Next]_vars

\* The service handling requests, some of which are cancelled.
NextCancel ==
    \/ Next
    \/ \E t \in Tasks : Cancel(t)

SpecCancel == Init /\ [][NextCancel]_vars

\* The service handling /query/simple requests for one question that
\* differ in top_k and score_threshold.
NextTuned ==
    \/ \E t \in Tasks, r \in TunedQueryRequests, ro \in RetrievalOutcomes,
          files \in SUBSET TemplateNames : QuerySimple(t, r, ro, files)
    \/ \E t \in Tasks, o \in HttpOutcomes : HttpResponse(t, o)
    \/ \E t \in Tasks : BackoffElapsed(t)
    \/ RedisDown
    \/ RedisUp

SpecTuned == Init /\ [][NextTuned]_vars

\* The answers of a provider that throttles: it answers a post with the
\* completion or with HTTP 429.
ThrottledOutcomes ==
    {o \in HttpOutcomes : o.kind = "response" /\ o.status_code \in {200, 429}}

\* The service in front of a provider that throttles.
NextThrottled ==
    \/ \E t \in Tasks, r \in SimpleQueryRequests, ro \in RetrievalOutcomes,
          files \in SUBSET TemplateNames : QuerySimple(t, r, ro, files)
    \/ \E t \in Tasks, r \in QueryRequests, ro \in RetrievalOutcomes,
          files \in SUBSET TemplateNames : QueryRag(t, r, ro, files)
    \/ \E t \in Tasks, o \in ThrottledOutcomes : HttpResponse(t, o)
    \/ \E t \in Tasks : BackoffElapsed(t)
    \/ RedisDown
    \/ RedisUp
    \/ \E k \in AllKeys : Expire(k)

SpecThrottled == Init /\ [][NextThrottled]_vars

\* A latency window smaller than the number of requests handled.
ServiceWindow == NumTasks - 1

\* The service with a Metrics instance built with either window.
InitWindow ==
    /\ \E w \in {ServiceWindow, LatencyWindow} : InitWith(Metrics(w))
    /\ NoLibCalls

SpecWindow == InitWindow /\ [][Next]_vars

\* One direct call of call_with_fallback.
NextLLM ==
    \/ \E mr \in 0..MaxRetriesBound : Generate(mr)
    \/ \E o \in HttpOutcomes : TransportAnswers(o)
    \/ GenerateBackoffElapsed

SpecLLM == Init /\ [][NextLLM]_vars

\* Threads sharing a Metrics instance built with either window.
InitMetrics ==
    /\ \E w \in {SmallWindow, LatencyWindow} : InitWith(Metrics(w))
    /\ NoLibCalls

NextMetrics ==
    \/ \E th \in Threads, c \in MetricsCalls : MetricsCall(th, c)
    \/ \E th \in Threads : Acquire(th)
    \/ \E th \in Threads : LoadCounter(th)
    \/ \E th \in Threads : StoreCounter(th)
    \/ \E th \in Threads : AppendLatency(th)
    \/ \E th \in Threads : ReadLatencies(th)
    \/ \E th \in Threads : ReadCounters(th)
    \/ \E th \in Threads : Release(th)

SpecMetrics == InitMetrics /\ [][NextMetrics]_vars

\* Direct calls of the QueryCache singleton while time passes and the
\* backend goes down and comes back.
NextCache ==
    \/ \E a \in CacheArgs : CacheGet(a)
    \/ \E a \in CacheArgs, resp \in CacheResponses, ttl \in CallTTLs :
          CacheSet(a, resp, ttl)
    \/ \E a \in CacheArgs : CacheDelete(a)
    \/ \E rag_id \in {<<>>} \cup {a[2] : a \in CacheArgs} :
          CacheClearAll(rag_id)
    \/ Elapse
    \/ RedisDown
    \/ RedisUp

SpecCache == Init /\ [][NextCache]_vars

\* One call of retrieve_context: the arguments, the embedding model and
\* the index are any of those above, and the client singleton exists
\* already or not.
InitRetrieval ==
    /\ InitWith(NewMetrics)
    /\ redis_up /\ api_key
    /\ qdrant_client \in {"None", "client"}
    /\ retrieval_call \in RetrievalCalls
    /\ prompt_call = NoPromptCall
    /\ chunk_call = NoChunkCall

NextRetrieval == RetrieveContext

SpecRetrieval == InitRetrieval /\ [][NextRetrieval]_vars

\* Calls of build_messages with any of the arguments above.
InitPrompt ==
    /\ InitWith(NewMetrics)
    /\ redis_up /\ api_key
    /\ NoRetrieval
    /\ prompt_call \in PromptCalls
    /\ chunk_call = NoChunkCall

NextPrompt == BuildMessages

SpecPrompt == InitPrompt /\ [][NextPrompt]_vars

\* One call of chunk_text with any of the arguments above.
InitChunk ==
    /\ InitWith(NewMetrics)
    /\ redis_up /\ api_key
    /\ NoRetrieval
    /\ prompt_call = NoPromptCall
    /\ chunk_call \in ChunkCalls

NextChunk == ChunkTextIteration

SpecChunk == InitChunk /\ [][NextChunk]_vars

\* =====================================================================
\* Properties
\* =====================================================================

\* The calls the recording transport answered for each model, in order.
PrimaryCalls == SelectSeq(transport_log, LAMBDA e : e.model = "primary")
FallbackCalls == SelectSeq(transport_log, LAMBDA e : e.model = "fallback")

\* A retryable failure as the specification lists them: request timeout,
\* connection error, HTTP 429.
Transient(o) ==
    \/ o.kind \in {"TimeoutException", "RequestError"}
    \/ o.kind = "response" /\ o.status_code = 429

\* A well-formed 200 response.
Succeeds(o) == o.kind = "response" /\ o.status_code = 200 /\ o.body_ok

\* A 4xx response other than 429.
ClientError(o) ==
    o.kind = "response" /\ o.status_code \in (400..499) \ {429}

GenerateOver == gen.phase \in {"returned", "raised"}

\* Task t takes up a /query/simple request in this step while the backend
\* is up and holds a live entry for the request's key.
ArrivesAtLiveEntry(t) ==
    /\ pc[t] = "idle"
    /\ pc'[t] # "idle"
    /\ request'[t].endpoint = "/query/simple"
    /\ redis_up
    /\ store[make_key(request'[t].query, request'[t].rag_id)] # <<>>

LiveEntry(r) == json_loads(store[make_key(r.query, r.rag_id)][1])

\* Task t returns in this step.
Returns(t) == pc[t] # "done" /\ pc'[t] = "done"

\* C1: error answers are never cached: no cache entry ever holds the answer
\* synthesized for a failed generation (so that an identical query after a
\* total generation failure misses the cache and generates again).
C1_ErrorAnswersNeverCached ==
    \A k \in AllKeys :
        store[k] # <<>> =>
            json_loads(store[k][1]).answer
                \notin {GenerationErrorAnswer, ExceptionAnswer}

\* C2: when /query/simple misses the cache and retrieval returns no chunk,
\* the fixed no-context answer with empty context_chunks is stored under
\* the query's key (the backend being up), so that the next identical query
\* is a hit.
C2_NoContextAnswerCached ==
    [][\A t \in Tasks :
        (/\ Returns(t)
         /\ request'[t].endpoint = "/query/simple"
         /\ ops'[t].path = "no_context"
         /\ redis_up)
        => store'[make_key(request'[t].query, request'[t].rag_id)] =
              <<json_dumps([answer |-> NoContextAnswer, sources |-> {},
                            context_chunks |-> <<>>])>>]_vars

\* C3: a query repeated while the entry its first, successfully generated
\* answer left in the cache is live (before TTL expiry, backend up) is
\* answered with cache_hit = True and with the answer and context_chunks
\* of the first response.
C3_RepeatReportsCacheHit ==
    [][\A t \in Tasks :
        (/\ ArrivesAtLiveEntry(t)
         /\ LiveEntry(request'[t]).answer
                \in {ContentOf("primary"), ContentOf("fallback")}
         /\ LiveEntry(request'[t]).context_chunks # <<>>)
           => /\ pc'[t] = "done"
              /\ response'[t][1].cache_hit = {TRUE}
              /\ response'[t][1].answer = LiveEntry(request'[t]).answer
              /\ response'[t][1].context_chunks =
                     LiveEntry(request'[t]).context_chunks]_vars

\* C4: on a cache hit /query/simple returns at once the answer, sources and
\* chunks of the entry; the request embeds nothing, searches nothing,
\* builds no prompt, calls no model and writes nothing to the cache, and
\* cache_hits_total grows by exactly one.
C4_CacheHitReturnsAtOnce ==
    [][\A t \in Tasks :
        ArrivesAtLiveEntry(t)
        => /\ pc'[t] = "done"
           /\ response'[t][1].status_code = 200
           /\ response'[t][1].answer = LiveEntry(request'[t]).answer
           /\ response'[t][1].sources = LiveEntry(request'[t]).sources
           /\ response'[t][1].context_chunks =
                  LiveEntry(request'[t]).context_chunks
           /\ ops'[t].embeds = 0
           /\ ops'[t].searches = 0
           /\ ops'[t].builds = 0
           /\ ops'[t].sets = 0
           /\ ops'[t].calls = 0
           /\ store' = store
           /\ metrics'.cache_hits_total = metrics.cache_hits_total + 1]_vars

\* A request has been served from an entry a generation wrote.
C4_Witness ==
    \E t \in Tasks :
        /\ pc[t] = "done"
        /\ ops[t].path = "cache_hit"
        /\ response[t][1].answer = ContentOf("primary")
        /\ response[t][1].context_chunks = <<Chunk1>>
        /\ metrics.cache_hits_total = 1

\* C5: when every attempt on the primary fails with a retryable error and
\* the fallback succeeds, call_with_fallback returns the fallback's content
\* with used_fallback = True after exactly max_retries + 1 attempts on the
\* primary, whatever max_retries is.
C5_FallbackAfterExhaustedPrimary ==
    (/\ GenerateOver
     /\ PrimaryCalls # <<>>
     /\ \A i \in 1..Len(PrimaryCalls) : Transient(PrimaryCalls[i].outcome)
     /\ \A i \in 1..Len(FallbackCalls) : Succeeds(FallbackCalls[i].outcome))
    => /\ gen.phase = "returned"
       /\ gen.content = ContentOf("fallback")
       /\ gen.used_fallback
       /\ Len(PrimaryCalls) = gen.max_retries + 1
       /\ Len(FallbackCalls) = 1

\* The primary has failed MaxRetriesBound + 1 times with retryable errors
\* and the fallback has answered.
C5_Witness ==
    /\ gen.phase = "returned"
    /\ gen.used_fallback
    /\ gen.max_retries = MaxRetriesBound
    /\ Len(PrimaryCalls) = MaxRetriesBound + 1
    /\ \A i \in 1..Len(PrimaryCalls) : Transient(PrimaryCalls[i].outcome)

\* C6: after the primary has failed, exactly one attempt is made on the
\* fallback: the fallback is never retried, whatever it answers.
C6_FallbackAttemptedOnce ==
    /\ Len(FallbackCalls) <= 1
    /\ (GenerateOver /\ gen.model = "fallback" /\ PrimaryCalls # <<>>)
       => Len(FallbackCalls) = 1

\* C7: the primary is attempted again only after a timeout, a connection
\* error or a 429; in particular, when the first call answers 500 and the
\* next call answers 200, the call returns that content with
\* used_fallback = True.
C7_RetryOnlyTransient ==
    /\ \A i \in 1..(Len(transport_log) - 1) :
          (transport_log[i].model = "primary"
           /\ transport_log[i + 1].model = "primary")
          => Transient(transport_log[i].outcome)
    /\ (/\ Len(transport_log) = 2
        /\ transport_log[1].outcome.kind = "response"
        /\ transport_log[1].outcome.status_code = 500
        /\ Succeeds(transport_log[2].outcome))
       => /\ gen.phase = "returned"
          /\ gen.used_fallback
          /\ gen.content = ContentOf("fallback")

\* C8: when the primary answers with a 4xx other than 429, it is attempted
\* exactly once, with no backoff sleep, and every later call goes to the
\* fallback.
C8_ClientErrorNotRetried ==
    (transport_log # <<>> /\ ClientError(transport_log[1].outcome))
    => /\ Len(PrimaryCalls) = 1
       /\ gen.sleeps.primary = 0
       /\ gen.model = "fallback"
       /\ \A i \in 2..Len(transport_log) : transport_log[i].model = "fallback"

\* The primary has answered 401 and the fallback has been called.
C8_Witness ==
    /\ Len(transport_log) >= 2
    /\ transport_log[1].model = "primary"
    /\ transport_log[1].outcome.kind = "response"
    /\ transport_log[1].outcome.status_code = 401
    /\ transport_log[2].model = "fallback"

\* C9: call_with_fallback fails only with OpenRouterError, and only after
\* the primary and then the fallback have failed.
C9_OnlyOpenRouterErrorEscapes ==
    gen.phase = "raised"
    => /\ gen.exc[1].type = "OpenRouterError"
       /\ gen.model = "fallback"

\* C10: no failure of the cache, of retrieval, of template loading or of
\* generation makes /query or /query/simple answer with anything but a
\* well-formed 200 response.
C10_NoHardFailure ==
    \A t \in Tasks :
        response[t] # <<>> => response[t][1].status_code = 200

\* Task t takes a step.
StepOf(t) == pc'[t] # pc[t] \/ llm'[t] # llm[t]

\* The call ended with the OpenRouterError of the fallback model: the
\* primary had failed before it.
BothModelsFailed(e) ==
    e.phase = "raised" /\ e.model = "fallback" /\ e.exc = <<OpenRouterError>>

C12_OneRequestOneSample ==
    [][\A t \in Tasks :
        StepOf(t)
        => /\ metrics'.requests_total =
                 metrics.requests_total + (IF pc[t] = "idle" THEN 1 ELSE 0)
           /\ metrics'.latencies_ms =
                 IF Returns(t)
                 THEN Append(metrics.latencies_ms, elapsed_ms(t))
                 ELSE metrics.latencies_ms]_vars

\* Two requests are over, one on the template-error path and one on the
\* unexpected-exception path (which /query answers with a 500).
C12_Witness ==
    \E t1, t2 \in Tasks :
        /\ pc[t1] = "done" /\ ops[t1].path = "template_error"
        /\ pc[t2] = "done" /\ ops[t2].path = "exception"
        /\ response[t2][1].status_code = 500
        /\ metrics.requests_total = 2
        /\ Len(metrics.latencies_ms) = 2

\* The entry query_simple builds from a response for cache.set.
CachedFrom(resp) ==
    json_dumps([answer |-> resp.answer, sources |-> resp.sources,
                context_chunks |-> resp.context_chunks])

\* What a suspended request can still do before it returns: the posts and
\* sleeps left on the model in use, and all of the fallback's while the
\* primary is in use.
Remaining(l) ==
    2 * (l.retries - l.attempt) + (IF l.phase = "http" THEN 1 ELSE 0)
    + (IF l.model = "primary" THEN 2 * l.max_retries + 2 ELSE 0)

\* C13: concurrent /query/simple requests with the same (question,
\* collection) may both miss the cache and both generate; under every
\* interleaving each request returns a complete response (a suspended
\* request can always take its next step whatever the other request does,
\* and each such step brings it nearer to its return), a fingerprint never
\* maps to more than one entry, and when a request stores its answer (the
\* backend being up) the entry of its fingerprint becomes that answer,
\* whatever another request wrote there before, and no other entry
\* changes.
C13_ConcurrentIdenticalQueries ==
    /\ [](\A t \in Tasks :
            /\ pc[t] = "http" => ENABLED (\E o \in HttpOutcomes :
                                             HttpResponse(t, o))
            /\ pc[t] = "sleep" => ENABLED BackoffElapsed(t))
    /\ [][\A t \in Tasks :
            /\ (StepOf(t) /\ pc[t] # "idle" /\ ~Returns(t))
               => Remaining(llm'[t]) < Remaining(llm[t])
            /\ \A k \in AllKeys : Len(store'[k]) <= 1
            /\ (Returns(t) /\ request'[t].endpoint = "/query/simple")
               => /\ response'[t][1].status_code = 200
                  /\ response'[t][1].answer # ""
            /\ (Returns(t) /\ ops'[t].sets = 1 /\ redis_up)
               => LET key == make_key(request'[t].query, request'[t].rag_id)
                  IN /\ store'[key] = <<CachedFrom(response'[t][1])>>
                     /\ \A k \in AllKeys \ {key} : store'[k] = store[k]]_vars

\* Two requests with the same fingerprint have both missed the cache and
\* both retrieved and generated; they got different answers and the entry
\* holds the answer of one of them.
C13_Witness ==
    \E t1, t2 \in Tasks :
        /\ t1 # t2
        /\ pc[t1] = "done" /\ pc[t2] = "done"
        /\ request[t1].endpoint = "/query/simple"
        /\ request[t2].endpoint = "/query/simple"
        /\ request[t1].query # request[t2].query
        /\ make_key(request[t1].query, request[t1].rag_id)
               = make_key(request[t2].query, request[t2].rag_id)
        /\ \A t \in {t1, t2} :
              /\ ops[t].path = "generated"
              /\ ops[t].searches = 1 /\ ops[t].calls = 1 /\ ops[t].sets = 1
        /\ response[t1][1].answer = ContentOf("primary")
        /\ response[t2][1].answer = ContentOf("fallback")
        /\ store[make_key(request[t2].query, request[t2].rag_id)]
               = <<CachedFrom(response[t2][1])>>

\* C14: embedding generation, the vector-index query and the generation
\* HTTP call are suspension points: a request completes an embedding (a
\* search, a post) only in a step that starts from a state where it was
\* suspended in that operation, so that other requests could take steps
\* while the operation was under way.
C14_SuspensionPoints ==
    [][\A t \in Tasks :
        /\ ops'[t].embeds > ops[t].embeds => pc[t] = "embedding"
        /\ ops'[t].searches > ops[t].searches => pc[t] = "search"
        /\ (llm'[t].posts # llm[t].posts /\ pc'[t] # "done")
           => pc[t] = "http"]_vars

\* The calls of method op whose update has been applied.
Applied(op) ==
    Cardinality({th \in Threads : /\ threads[th].op = op
                                  /\ threads[th].pc \in {"release", "done"}})

\* C15: metrics updates lose nothing under concurrency: in every state
\* reached by interleaving the threads' calls, each counter equals the
\* number of calls of its method applied so far (n after n calls), the
\* number of samples equals the number of record_latency calls applied, up
\* to the window size, and the dict a get_snapshot call has built is the
\* snapshot of the metrics as they are while it still holds the lock, so no
\* update was applied in part or in between its reads.
C15_NoLostUpdate ==
    /\ \A op \in IncOps : metrics[CounterOf(op)] = Applied(op)
    /\ Len(metrics.latencies_ms) =
          (IF Applied("record_latency") < metrics.latency_window
           THEN Applied("record_latency") ELSE metrics.latency_window)
    /\ \A th \in Threads :
          (threads[th].op = "get_snapshot" /\ threads[th].pc = "release")
          => threads[th].result = <<get_snapshot(metrics)>>

\* Every thread has called a method and returned: all but one
\* inc_requests, one get_snapshot, whose dict shows one of the increments.
C15_Witness ==
    /\ \A th \in Threads : threads[th].pc = "done"
    /\ \E s \in Threads :
          /\ threads[s].op = "get_snapshot"
          /\ threads[s].result[1].requests_total = 1
          /\ \A th \in Threads \ {s} : threads[th].op = "inc_requests"
    /\ metrics.requests_total = NumThreads - 1

\* The caller makes a call in this step.
CallStep == cache_call' # cache_call /\ cache_call'.elapsed = 0

\* The call of this step is a get that the backend answers and that comes
\* right after a successful set of the same question and collection.
GetAfterSet ==
    /\ CallStep
    /\ cache_call'.op = "get" /\ cache_call'.backend_ok
    /\ cache_call.op = "set" /\ cache_call.ok
    /\ cache_call'.query = cache_call.query
    /\ cache_call'.rag_id = cache_call.rag_id

\* The TTL a set asks for: its ttl argument, or the default of one hour
\* when it has none.
RequestedTTL(ttl) == IF ttl = 0 THEN DEFAULT_TTL ELSE ttl

\* C16: with the backend up and before the TTL has run out, a get that
\* follows set(q, c, A) returns a value equal to A, whatever the key held
\* before the set: after a second set(q, c, B) the get returns B, not A.
C16_WriteThenRead ==
    [][(GetAfterSet /\ cache_call.elapsed < RequestedTTL(cache_call.ttl))
       => cache_call'.found = <<cache_call.response>>]_vars

\* A get has returned B after set(q, c, B) replaced a different entry A,
\* one Tick after the set and before the TTL ran out.
C16_Witness ==
    /\ cache_call.op = "get"
    /\ cache_call.prior # <<>>
    /\ cache_call.prior[1].query = cache_call.query
    /\ cache_call.prior[1].rag_id = cache_call.rag_id
    /\ cache_call.prior[1].replaced # <<>>
    /\ cache_call.prior[1].replaced # <<cache_call.prior[1].response>>
    /\ cache_call.prior[1].elapsed = Tick
    /\ cache_call.found = <<cache_call.prior[1].response>>

\* C17: an entry written with TTL t is never returned by get once t has
\* gone by since its write.  Expiry is the backend's alone: a successful set
\* gives the entry the TTL asked for, the ttl argument taking precedence
\* over the instance default, and a get that the backend answers returns
\* exactly what the backend still holds and changes nothing.
C17_ExpiredNeverReturned ==
    [][/\ (GetAfterSet /\ cache_call.elapsed >= RequestedTTL(cache_call.ttl))
          => cache_call'.found = <<>>
       /\ (CallStep /\ cache_call'.op = "set" /\ cache_call'.ok)
          => expiry'[cache_call'.key] = RequestedTTL(cache_call'.ttl)
       /\ (CallStep /\ cache_call'.op = "get")
          => /\ store' = store /\ expiry' = expiry
             /\ cache_call'.backend_ok
                => cache_call'.found =
                      (IF store[cache_call'.key] = <<>> THEN <<>>
                       ELSE <<json_loads(store[cache_call'.key][1])>>)]_vars

\* A get has returned absent one Tick after a set with ttl = Tick, the
\* backend answering: half the instance default had gone by.
C17_Witness ==
    /\ cache_call.op = "get" /\ cache_call.backend_ok
    /\ cache_call.found = <<>>
    /\ cache_call.prior # <<>>
    /\ cache_call.prior[1].query = cache_call.query
    /\ cache_call.prior[1].rag_id = cache_call.rag_id
    /\ cache_call.prior[1].ttl = Tick
    /\ cache_call.prior[1].elapsed = Tick
    /\ Tick < SingletonTTL

\* C18: cache-backend failures never fail a query: no QueryCache method
\* ever raises; a call made while the backend is down, whose backend call
\* therefore raises (or whose client is absent), returns absent for get, False for set and delete, 0 for
\* clear_all; and with the backend down, whatever the cache state,
\* /query/simple goes on to retrieval as on a miss and returns a generated
\* answer although it cannot be stored.
C18_BackendFailuresDegrade ==
    /\ ~cache_call.raised
    /\ (cache_call.op # "none" /\ ~cache_call.backend_ok)
       => /\ cache_call.found = <<>>
          /\ cache_call.ok = FALSE
          /\ cache_call.count = 0
    /\ ~redis_up
       => \A r \in SimpleQueryRequests :
             /\ \A ro \in RetrievalOutcomes, files \in SUBSET TemplateNames :
                   LET h == query_simple(r, ro, files, NewMetrics, CacheState,
                                         {}, redis_up, TRUE)
                   IN /\ h.ops.path # "cache_hit"
                      /\ h.ops.embeds = 1
                      /\ ro.client_ok => h.ops.path # "exception"
             /\ LET l == ChatReturned(
                            call_with_fallback(HandlerMaxRetries, TRUE),
                            ContentOf("primary"))
                    h == simple_after_generation(r, <<Chunk1>>, l, NoOps,
                             NewMetrics, CacheState, {}, redis_up)
                IN /\ h.response[1].status_code = 200
                   /\ h.response[1].answer = ContentOf("primary")

\* clear_all has returned 0 with the backend down while entries were live.
C18_Witness ==
    /\ cache_call.op = "clear_all"
    /\ ~cache_call.backend_ok
    /\ cache_call.count = 0
    /\ ~redis_up
    /\ cache_client = "client"
    /\ \E k \in AllKeys : store[k] # <<>>

\* A question trimmed of surrounding whitespace, then lower-cased.
Normalized(q) == Lower(Strip(q))

\* The two calls of this step and the one before compute a key each.
KeyedCalls ==
    /\ CallStep
    /\ cache_call.op \in {"get", "set", "delete"}
    /\ cache_call'.op \in {"get", "set", "delete"}

\* C19: the cache key is a pure function of (collection id, normalized
\* question): any two calls with the same collection whose questions are
\* equal after trimming and lower-casing compute the same key, as
\* key(" Q ", c) = key("q", c).
C19_KeyIsPure ==
    [][(/\ KeyedCalls
        /\ cache_call'.rag_id = cache_call.rag_id
        /\ Normalized(cache_call'.query) = Normalized(cache_call.query))
       => cache_call'.key = cache_call.key]_vars

\* get(" Q ", c) has returned the entry that set("q", c, A) wrote just
\* before.
C19_Witness ==
    /\ cache_call.op = "get"
    /\ cache_call.query = <<" ", "Q", " ">>
    /\ cache_call.prior # <<>>
    /\ cache_call.prior[1].query = <<"q">>
    /\ cache_call.prior[1].rag_id = cache_call.rag_id
    /\ cache_call.found = <<cache_call.prior[1].response>>

\* The string a key is the hash of.
HashedString(key) == key[2][2]

\* C20: the collection id and the normalized question are joined
\* unambiguously before hashing: two calls hash the same string only if
\* their collections are equal and their questions are equal once
\* normalized, so that a get never returns, under the key of one
\* collection, the entry a set has just written for another one.
C20_UnambiguousJoin ==
    [][KeyedCalls
       => /\ HashedString(cache_call'.key) = HashedString(cache_call.key)
             => /\ cache_call'.rag_id = cache_call.rag_id
                /\ Normalized(cache_call'.query) =
                      Normalized(cache_call.query)
          /\ (/\ cache_call.op = "set" /\ cache_call.ok
              /\ cache_call'.op = "get"
              /\ cache_call'.key = cache_call.key
              /\ cache_call'.found = <<cache_call.response>>)
             => cache_call'.rag_id = cache_call.rag_id]_vars

\* The keys under which the entries of a collection are stored.
KeysOf(rag_id) ==
    {make_key(q, rag_id) : q \in Queries}
    \cup {make_key(a[1], a[2]) : a \in {b \in CacheArgs : b[2] = rag_id}}

\* C21: clear_all(rag_id) with a collection id removes only the entries
\* of that collection and leaves the entries of every other collection
\* as they were; clear_all() without an argument removes every entry of
\* the query cache.
C21_ClearOnlyThatCollection ==
    [][(CallStep /\ cache_call'.op = "clear_all")
       => /\ cache_call'.rag_id # <<>>
             => \A k \in AllKeys \ KeysOf(cache_call'.rag_id) :
                   store'[k] = store[k]
          /\ (cache_call'.rag_id = <<>> /\ cache_call'.backend_ok)
             => \A k \in AllKeys : store'[k] = <<>>]_vars

\* The retrieve_context call has returned or raised.
RetrievalOver == retrieval_call.stage = "returned"

\* The client singleton could not be created during the call.
ClientCreationFailed ==
    retrieval_call.client_before = "None" /\ ~retrieval_call.ix.client_ok

\* Every nearest-neighbour method the client has raised.
IndexCallsFailed ==
    LET ix == retrieval_call.ix
    IN /\ ix.has_query_points => ix.query_points = "raises"
       /\ ix.has_search => ~ix.search_ok

\* C22: retrieve_context never raises: when embedding the question
\* fails, when the index client cannot be created, or when the index
\* calls fail, it returns an empty list.
C22_RetrieveNeverRaises ==
    RetrievalOver
    => /\ ~retrieval_call.raised
       /\ (\/ ~retrieval_call.ix.embedding_ok
           \/ ClientCreationFailed
           \/ ~retrieval_call.ix.collection_exists
           \/ IndexCallsFailed)
          => retrieval_call.ret = <<>>

\* The call reaches the index, which does not know the collection.
UnknownCollection ==
    /\ RetrievalOver
    /\ retrieval_call.ix.embedding_ok
    /\ ~ClientCreationFailed
    /\ ~retrieval_call.ix.collection_exists

\* The nearest-neighbour queries among the calls issued to the index.
NearestNeighbourCalls ==
    SelectSeq(retrieval_call.log,
              LAMBDA c : c.method \in {"query_points", "search"})

\* C23: a search on a collection the index does not know returns an
\* empty list, does not raise, and issues no nearest-neighbour query.
C23_UnknownCollectionIsEmpty ==
    UnknownCollection
    => /\ ~retrieval_call.raised
       /\ retrieval_call.ret = <<>>
       /\ NearestNeighbourCalls = <<>>

\* A search on an unknown collection has returned [] after asking the
\* index for the collection only, though the index had a hit to give.
C23_Witness ==
    /\ UnknownCollection
    /\ retrieval_call.ix.hits # <<>>
    /\ retrieval_call.ret = <<>>
    /\ Len(retrieval_call.log) = 1
    /\ retrieval_call.log[1].method = "get_collection"
    /\ retrieval_call.log[1].collection_name = retrieval_call.rag_id

\* C24: whatever the index responds, a response that mixes hits above
\* and below the threshold included, retrieve_context called with
\* score_threshold = t returns no chunk whose score is below t.
C24_NoChunkBelowThreshold ==
    (RetrievalOver /\ retrieval_call.score_threshold # <<>>)
    => \A i \in DOMAIN retrieval_call.ret :
          retrieval_call.ret[i].score >= retrieval_call.score_threshold[1]

\* C25: whatever the index responds and whatever k is, retrieve_context
\* called with top_k = k returns at most k chunks.
C25_AtMostTopK ==
    RetrievalOver => Len(retrieval_call.ret) <= retrieval_call.top_k

\* The call reaches the index, and one of the nearest-neighbour methods
\* of the client returns its hits.
IndexAnswered ==
    LET ix == retrieval_call.ix
    IN /\ RetrievalOver
       /\ ix.embedding_ok /\ ~ClientCreationFailed /\ ix.collection_exists
       /\ \/ ix.has_query_points /\ ix.query_points # "raises"
          \/ ix.has_search /\ ix.search_ok

\* The value of a key of a payload, or a default when the key or the
\* payload is missing.
PayloadValue(hit, key, default) ==
    IF hit.payload.kind = "dict" /\ hit.payload.items[key] # <<>>
    THEN hit.payload.items[key][1]
    ELSE default

\* The chunk a raw hit is mapped to.
ChunkOf(hit) ==
    [id |-> IF hit.id = <<>> THEN "unknown" ELSE hit.id[1],
     source |-> PayloadValue(hit, "source",
                   PayloadValue(hit, "source_path", "unknown")),
     text |-> PayloadValue(hit, "text", ""),
     score |-> IF hit.score = <<>> THEN 0 ELSE hit.score[1]]

\* C26: search maps each raw hit to exactly one chunk, in the order of
\* the index: source is payload['source'], else payload['source_path'],
\* else 'unknown'; text defaults to ''; a hit without id, score or
\* payload gets 'unknown', 0.0 or an empty payload; no shape of hit
\* makes search raise or lose a hit.
C26_EachHitOneChunk ==
    IndexAnswered
    => /\ ~retrieval_call.raised
       /\ Len(retrieval_call.ret) = Len(retrieval_call.ix.hits)
       /\ \A i \in DOMAIN retrieval_call.ret :
             i \in DOMAIN retrieval_call.ix.hits
             => retrieval_call.ret[i] = ChunkOf(retrieval_call.ix.hits[i])

\* C27: retrieve_context(rag_id, ...) queries the collection named
\* rag_id followed by "_collection", the name under which the demo seed
\* script stores its points.
C27_CollectionNameSuffixed ==
    RetrievalOver
    => \A i \in DOMAIN retrieval_call.log :
          retrieval_call.log[i].collection_name =
             retrieval_call.rag_id \o <<"_collection">>

\* build_messages has been called.
PromptBuilt == prompt_call.calls > 0

\* The user message of the messages returned.
UserMessage == prompt_call.messages[Len(prompt_call.messages)]

\* Whether text starts with the placeholder of that name.
StartsWith(text, name) ==
    /\ Len(text) >= Len(Placeholder(name))
    /\ SubSeq(text, 1, Len(Placeholder(name))) = Placeholder(name)

\* The template after one pass that puts the question and the context in
\* the place of their placeholders and looks at nothing it has inserted.
RECURSIVE substituted(_, _, _)
substituted(template, question, context) ==
    IF template = <<>>
    THEN <<>>
    ELSE IF StartsWith(template, "question")
    THEN question \o substituted(SubSeq(template, 4, Len(template)),
                                 question, context)
    ELSE IF StartsWith(template, "context")
    THEN context \o substituted(SubSeq(template, 4, Len(template)),
                                question, context)
    ELSE <<Head(template)>> \o substituted(Tail(template), question, context)

\* C28: build_messages substitutes the {question} and {context}
\* placeholders of the user template once: the question put in is not
\* itself searched for placeholders, so that a question containing
\* "{context}" appears as it was typed, and any other placeholder of the
\* template stays as it is.
C28_SubstitutedOnce ==
    PromptBuilt
    => UserMessage.content =
          substituted(prompt_call.user_template, prompt_call.question,
                      format_context(prompt_call.context_chunks))

\* The turns of the session history of the call: none when it is None.
HistoryTurns ==
    IF prompt_call.session_history = <<>>
    THEN <<>>
    ELSE prompt_call.session_history[1]

\* The message says what the turn says.
SameTurn(message, turn) ==
    /\ turn.role # <<>> => message.role = turn.role[1]
    /\ turn.content # <<>> => message.content = turn.content[1]

\* C29: build_messages returns one system message holding the system
\* template as it is, then the turns of the session history in the order
\* given, then exactly one user message, 2 + |history| messages in all;
\* called again with the same arguments it returns the same messages.
C29_MessagesStructure ==
    PromptBuilt
    => /\ Len(prompt_call.messages) = 2 + Len(HistoryTurns)
       /\ prompt_call.messages[1] =
             [role |-> "system", content |-> prompt_call.system_template]
       /\ \A i \in DOMAIN HistoryTurns :
             SameTurn(prompt_call.messages[1 + i], HistoryTurns[i])
       /\ UserMessage.role = "user"
       /\ prompt_call.earlier # <<>>
          => prompt_call.messages = prompt_call.earlier[1]

\* A second call with a history of an assistant turn followed by a user
\* turn has returned four messages, the assistant's turn second, as the
\* first call did; the system template holds a placeholder.
C29_Witness ==
    /\ prompt_call.calls = 2
    /\ Len(HistoryTurns) = 2
    /\ HistoryTurns[1].role = <<"assistant">>
    /\ Len(prompt_call.messages) = 4
    /\ prompt_call.messages[2].role = "assistant"
    /\ prompt_call.messages[3].role = "user"
    /\ prompt_call.system_template # <<"You are helpful.">>
    /\ prompt_call.messages[1].content = prompt_call.system_template
    /\ prompt_call.earlier = <<prompt_call.messages>>

\* The primary model has answered one of its calls with a well-formed
\* 200 response.
PrimarySucceeded ==
    \E i \in DOMAIN PrimaryCalls : Succeeds(PrimaryCalls[i].outcome)

\* C30: when the primary model succeeds, on its first attempt or after
\* retries, call_with_fallback returns the content of the primary with
\* used_fallback = False and the fallback model is never called;
\* used_fallback is True exactly when the content returned came from the
\* fallback model.
C30_PrimarySuccessNoFallback ==
    /\ PrimarySucceeded
       => /\ gen.phase = "returned"
          /\ gen.content = ContentOf("primary")
          /\ ~gen.used_fallback
          /\ FallbackCalls = <<>>
    /\ gen.phase = "returned"
       => /\ gen.used_fallback
             <=> transport_log[Len(transport_log)].model = "fallback"
          /\ gen.used_fallback <=> gen.content = ContentOf("fallback")

\* The primary has answered after MaxRetriesBound retryable failures:
\* its content is returned, unmarked, and the fallback was not called.
C30_Witness ==
    /\ gen.phase = "returned"
    /\ Len(PrimaryCalls) = MaxRetriesBound + 1
    /\ \A i \in 1..MaxRetriesBound : Transient(PrimaryCalls[i].outcome)
    /\ Succeeds(PrimaryCalls[MaxRetriesBound + 1].outcome)
    /\ gen.content = ContentOf("primary")
    /\ ~gen.used_fallback
    /\ FallbackCalls = <<>>

Models == {"primary", "fallback"}

\* The calls the transport answered for model m, in order.
ModelCalls(m) == SelectSeq(transport_log, LAMBDA e : e.model = m)

\* The call_chat_completion of model m is over.
ChatOver(m) ==
    \/ gen.phase \in {"returned", "raised"}
    \/ m = "primary" /\ gen.model = "fallback"

\* The call_chat_completion of model m has returned.
ChatHasReturned(m) == gen.model = m /\ gen.phase = "returned"

\* The call_chat_completion of model m has raised err.
ChatHasRaised(m, err) ==
    IF m = "primary" /\ CaughtByFallback(err)
    THEN gen.model = "fallback"
    ELSE gen.model = m /\ gen.phase = "raised" /\ gen.exc = <<err>>

\* A response on which the retry loop stops.
Final(o) ==
    o.kind = "response" /\ (o.status_code = 200 \/ ClientError(o))

\* Model m gets at most max_retries + 1 posts, no post follows a 200 or a
\* non-429 4xx response, and a sleep follows every failed attempt but the
\* last.
BoundedAttempts(m) ==
    LET calls == ModelCalls(m)
    IN /\ Len(calls) = gen.posts[m]
       /\ gen.posts[m] <= gen.max_retries + 1
       /\ \A i \in DOMAIN calls :
             Final(calls[i].outcome) => i = Len(calls) /\ ChatOver(m)
       /\ (gen.model = m /\ gen.phase = "http")
          => gen.sleeps[m] = gen.posts[m]
       /\ (gen.model = m /\ gen.phase = "sleep")
          => gen.sleeps[m] = gen.posts[m] /\ gen.posts[m] <= gen.max_retries
       /\ (ChatOver(m) /\ gen.posts[m] > 0)
          => gen.sleeps[m] = gen.posts[m] - 1

\* How the call of model m has ended when its last response was not a
\* 200: a non-429 4xx raised at once, anything else raised the last
\* error after max_retries + 1 attempts.
EndsRaising(m) ==
    LET calls == ModelCalls(m)
        last == calls[Len(calls)].outcome
    IN (ChatOver(m) /\ calls # <<>>
        /\ ~(last.kind = "response" /\ last.status_code = 200))
       => /\ ChatHasRaised(m, OpenRouterError)
          /\ ~ClientError(last) => Len(calls) = gen.max_retries + 1

\* A call under way can take its next step, and every step brings it
\* nearer to its end.
ChatProgresses ==
    /\ [](/\ gen.phase = "http"
             => ENABLED (\E o \in HttpOutcomes : TransportAnswers(o))
          /\ gen.phase = "sleep" => ENABLED GenerateBackoffElapsed)
    /\ [][gen.phase \in {"http", "sleep"}
          => Remaining(gen') < Remaining(gen)]_vars

CancelStep(t) ==
    /\ pc[t] \in {"http", "sleep"}
    /\ ops'[t].ended.exc = <<CancelledError>>

\* C32: a query task cancelled at a suspension point before its cache
\* store (during a generation call or a backoff sleep) writes nothing to
\* the cache and leaves every cache entry as it was; the metrics stay
\* consistent: its request was counted once, on arrival, no error or
\* cache hit is counted for the cancellation, and one latency sample is
\* recorded for it.
C32_CancelledWritesNothing ==
    [][\A t \in Tasks :
         /\ CancelStep(t)
            => /\ pc'[t] = "cancelled"
               /\ response'[t] = <<>>
               /\ ops'[t].sets = 0
               /\ store' = store /\ expiry' = expiry
               /\ metrics'.requests_total = metrics.requests_total
               /\ metrics'.errors_total = metrics.errors_total
               /\ metrics'.cache_hits_total = metrics.cache_hits_total
               /\ metrics'.latencies_ms =
                     Append(metrics.latencies_ms, elapsed_ms(t))
         /\ (StepOf(t) /\ pc[t] # "idle")
            => metrics'.requests_total = metrics.requests_total
         /\ (StepOf(t) /\ pc[t] = "idle")
            => metrics'.requests_total = metrics.requests_total + 1
         /\ pc[t] = "cancelled" => pc'[t] = "cancelled"]_vars

\* A /query/simple request was cancelled at an await of its generation
\* while the cache held the answer of another, finished request: the
\* entry is still there, and two requests and two latency samples are
\* counted.
C32_Witness ==
    \E t1, t2 \in Tasks :
        /\ pc[t1] = "cancelled" /\ pc[t2] = "done"
        /\ request[t1].endpoint = "/query/simple"
        /\ ops[t1].ended.exc = <<CancelledError>>
        /\ ops[t1].sets = 0
        /\ ops[t2].path = "generated" /\ ops[t2].sets = 1
        /\ store[make_key(request[t2].query, request[t2].rag_id)]
              = <<CachedFrom(response[t2][1])>>
        /\ metrics.requests_total = 2
        /\ Len(metrics.latencies_ms) = 2
        /\ metrics.errors_total = 0

\* What get returns for a key when it reaches the backend.
Stored(key) ==
    IF store[key] = <<>> THEN <<>> ELSE <<json_loads(store[key][1])>>

\* C33: the cache does not stay stuck in a stale 'down' state: when the
\* backend is unreachable at the first use of the cache, get returns
\* absent and set returns False; once the backend is reachable, the get
\* and set calls of the same process reach it and work, without a
\* restart.
C33_NotStuckDown ==
    [][(CallStep /\ cache_call'.op \in {"get", "set"})
       => /\ ~cache_call'.backend_ok
             => cache_call'.found = <<>> /\ ~cache_call'.ok
          /\ (cache_call'.backend_ok /\ cache_call'.op = "get")
             => cache_call'.found = Stored(cache_call'.key)
          /\ (cache_call'.backend_ok /\ cache_call'.op = "set")
             => /\ cache_call'.ok
                /\ store'[cache_call'.key] =
                      <<json_dumps(cache_call'.response)>>
          /\ (cache_call'.backend_ok /\ cache_call'.degraded)
             => ~Degraded']_vars

\* The cache was first used with the backend unreachable; the backend
\* came back, and a set followed by a get of the same question have both
\* reached it: the get has returned what the set stored.
C33_Witness ==
    /\ cache_call.op = "get" /\ cache_call.backend_ok
    /\ ~cache_call.degraded
    /\ cache_call.prior # <<>>
    /\ cache_call.prior[1].degraded
    /\ cache_call.found = <<cache_call.prior[1].response>>

\* The call reaches the index, which knows the collection.
CollectionFound ==
    /\ RetrievalOver
    /\ retrieval_call.ix.embedding_ok
    /\ ~ClientCreationFailed
    /\ retrieval_call.ix.collection_exists

\* The methods of the nearest-neighbour queries issued, in order.
MethodsTried ==
    [i \in DOMAIN NearestNeighbourCalls |-> NearestNeighbourCalls[i].method]

Arrives(t) ==
    pc[t] = "idle" /\ pc'[t] # "idle"
    /\ request'[t].endpoint = "/query/simple"

\* C35: the cache decision of /query/simple depends only on (rag_id,
\* normalized query): a request is served from the cache exactly when
\* the backend answers and holds an entry under the key of its question
\* and collection, and it is then given the cached answer and chunks as
\* they are, whatever its top_k and score_threshold: the chunks are not
\* filtered again.
C35_CacheIgnoresTopKAndThreshold ==
    [][\A t \in Tasks :
         Arrives(t)
         => /\ ops'[t].path = "cache_hit" <=> ArrivesAtLiveEntry(t)
            /\ ArrivesAtLiveEntry(t)
               => /\ response'[t][1].answer = LiveEntry(request'[t]).answer
                  /\ response'[t][1].sources = LiveEntry(request'[t]).sources
                  /\ response'[t][1].context_chunks =
                        LiveEntry(request'[t]).context_chunks
                  /\ ops'[t].searches = 0]_vars

\* A request with the default top_k and score_threshold has generated
\* and stored its answer with a chunk scored 0.89; a request for the
\* same question with top_k = 1 and score_threshold = 0.95 has been
\* served that answer and that chunk from the cache.
C35_Witness ==
    \E t1, t2 \in Tasks :
        /\ pc[t1] = "done" /\ pc[t2] = "done"
        /\ ops[t1].path = "generated" /\ ops[t2].path = "cache_hit"
        /\ request[t1].query = request[t2].query
        /\ request[t1].rag_id = request[t2].rag_id
        /\ request[t1].top_k = 5 /\ request[t1].score_threshold = 0
        /\ request[t2].top_k = 1 /\ request[t2].score_threshold = 95
        /\ response[t2][1].answer = response[t1][1].answer
        /\ response[t2][1].context_chunks = <<Chunk1>>
        /\ Chunk1.score < request[t2].score_threshold

\* The response of task t carries a latency_ms field: the response models
\* do, the HTTPException of /query does not.
HasLatencyField(t) == response[t] # <<>> /\ response[t][1].status_code = 200

AllPostsThrottled(t) ==
    /\ pc[t] = "done"
    /\ api_key
    /\ BothModelsFailed(ops[t].ended)

\* C37: no query path changes rate_limited_total: it is 0 in every
\* reachable state of the service, also after the generation provider has
\* answered HTTP 429 any number of times.
C37_RateLimitedStaysZero == metrics.rate_limited_total = 0

\* A /query request and a /query/simple request have each been answered
\* 429 on every post of both models, and have returned their error
\* answers with the error counter raised.
C37_Witness ==
    \E t1, t2 \in Tasks :
        /\ request[t1].endpoint = "/query"
        /\ request[t2].endpoint = "/query/simple"
        /\ AllPostsThrottled(t1) /\ AllPostsThrottled(t2)
        /\ metrics.errors_total = 2
        /\ metrics.rate_limited_total = 0

\* The counters of a Metrics instance.
CounterNames ==
    {"requests_total", "errors_total", "cache_hits_total",
     "rate_limited_total"}

\* The paths on which a handler calls inc_errors.
ErrorPaths == {"template_error", "generation_failed", "exception"}

\* The requests that have arrived, and those answered on one of the paths.
Arrived == {t \in Tasks : pc[t] # "idle"}
AnsweredOn(paths) == {t \in Tasks : pc[t] = "done" /\ ops[t].path \in paths}

Smaller(a, b) == IF a <= b THEN a ELSE b

\* get_snapshot()["latency_samples"]
latency_samples == Len(metrics.latencies_ms)

LoopIteration == chunk_call'.iterations = chunk_call.iterations + 1

\* C39: chunk_text terminates for every text and every chunk_size >= 1
\* and 0 <= overlap < chunk_size: each loop iteration strictly increases
\* start, which never goes backwards or negative, so that the loop runs
\* at most len(text) iterations and the list of chunks is finite.
C39_ChunkTextTerminates ==
    /\ [](chunk_call.start >= 0 /\ chunk_call.iterations <= Len(chunk_call.text))
    /\ [][LoopIteration => chunk_call'.start > chunk_call.start]_vars

====
